---------------------------- MODULE Spec2Model ----------------------------
(***************************************************************************)
(* Model of the bundle-dataset extraction engine of dinercadeau_restaurants *)
(* (parser.py, models.py): parse_listing_page with its primary path, its   *)
(* three process-wide caches and its two fallback strategies, plus the     *)
(* pure helpers _filter_dataset, _convert_entry and merge_tags.            *)
(*                                                                         *)
(* Python text is a sequence of atoms (one-character strings, or opaque    *)
(* tokens for URL parts and bundle text).  A JSON value is a record        *)
(* [t |-> type tag, v |-> payload]; a dict is an ordered sequence of       *)
(* <<key, value>> pairs, as Python keeps insertion order.                  *)
(***************************************************************************)
EXTENDS Integers, Sequences, FiniteSets, TLC

VARIABLES
    CONTEXT_CACHE,     \* parser.py:22  page-bundle URL -> context map
    CHUNK_HASH_CACHE,  \* parser.py:21  runtime-bundle URL -> chunk hash map
    DATASET_CACHE,     \* parser.py:20  page-bundle URL -> decoded dataset
    fetchLog,          \* URLs handed to _fetch_text, in call order
    calls,             \* number of parse_listing_page invocations started
    pc,                \* position of the running invocation
    inv,               \* arguments and locals of the running invocation
    outcome,           \* how the last invocation ended
    decoded,           \* history: page-bundle URL -> dataset first decoded for it
    probe              \* input/output of a directly called pure helper

engineVars == <<CONTEXT_CACHE, CHUNK_HASH_CACHE, DATASET_CACHE, fetchLog,
                calls, pc, inv, outcome, decoded>>
vars == <<CONTEXT_CACHE, CHUNK_HASH_CACHE, DATASET_CACHE, fetchLog,
          calls, pc, inv, outcome, decoded, probe>>

----------------------------------------------------------------------------
(* Bounds *)

MaxCalls == 2        \* invocations of parse_listing_page per behaviour
MaxSource == 5       \* longest source text handed to the lexer
MaxBraceSource == 7  \* longest source text handed to the brace scan
MaxModules == 2      \* modules of a generated dataset chunk
MaxRecords == 120    \* longest record sequence handed to _filter_dataset

----------------------------------------------------------------------------
(* Python values *)

Null == [t |-> "null", v |-> <<>>]
S(s) == [t |-> "str", v |-> s]
N(n) == [t |-> "num", v |-> <<n>>]
L(items) == [t |-> "list", v |-> items]
D(pairs) == [t |-> "dict", v |-> pairs]

IsStr(x) == x.t = "str"
IsDict(x) == x.t = "dict"
IsList(x) == x.t = "list"

\* Python truthiness of a decoded JSON value
Truthy(x) ==
    CASE x.t = "null" -> FALSE
      [] x.t = "num"  -> x.v # <<0>>
      [] OTHER        -> x.v # <<>>

\* x or y
Or(x, y) == IF Truthy(x) THEN x ELSE y

\* key in d
HasKey(d, k) == \E i \in 1..Len(d.v) : d.v[i][1] = k

\* d.get(k, default)
GetDefault(d, k, default) ==
    IF HasKey(d, k)
    THEN d.v[CHOOSE i \in 1..Len(d.v) : d.v[i][1] = k][2]
    ELSE default

\* d.get(k)
Get(d, k) == GetDefault(d, k, Null)

\* list(d.values())
Values(d) == [i \in 1..Len(d.v) |-> d.v[i][2]]

\* str.lower(), one atom at a time
LowerAtom(c) ==
    CASE c = "A" -> "a"
      [] c = "B" -> "b"
      [] c = "Restaurant" -> "restaurant"
      [] c = "FoodEstablishment" -> "foodestablishment"
      [] OTHER   -> c

Lower(s) == [i \in 1..Len(s) |-> LowerAtom(s[i])]

RECURSIVE LStrip(_)
LStrip(s) == IF s # <<>> /\ Head(s) = " " THEN LStrip(Tail(s)) ELSE s

RECURSIVE RStrip(_)
RStrip(s) ==
    IF s # <<>> /\ s[Len(s)] = " " THEN RStrip(SubSeq(s, 1, Len(s) - 1)) ELSE s

\* str.strip()
Strip(s) == RStrip(LStrip(s))

\* str(n) of a non-negative integer, digit by digit
Digits == <<"0", "1", "2", "3", "4", "5", "6", "7", "8", "9">>

RECURSIVE Decimal(_)
Decimal(n) ==
    IF n < 10 THEN <<Digits[n + 1]>>
    ELSE Append(Decimal(n \div 10), Digits[(n % 10) + 1])

\* str(value): text of a string or number; a container prints its brackets
StrOf(x) ==
    CASE x.t = "str" -> x.v
      [] x.t = "num" -> IF x.v[1] < 0 THEN <<"-">> \o Decimal(-x.v[1])
                        ELSE Decimal(x.v[1])
      [] x.t = "null" -> <<"N", "o", "n", "e">>
      [] x.t = "list" -> <<"[", "]">>
      [] OTHER -> <<"{", "}">>

\* A call's result: a returned value, or the exception that left it
Ok(x) == [exc |-> "none", val |-> x]
Raise(kind) == [exc |-> kind, val |-> <<>>]
Raised(r) == r.exc # "none"

\* one more item of a loop that collects the items that are not None: the
\* first exception leaves the loop
Collect(item, rest) ==
    IF Raised(item) THEN item
    ELSE IF Raised(rest) THEN rest
    ELSE IF item.val # [t |-> "null", v |-> <<>>]
         THEN Ok(<<item.val>> \o rest.val)
    ELSE rest

\* one more batch of a loop that collects batches of items
CollectAll(batch, rest) ==
    IF Raised(batch) THEN batch
    ELSE IF Raised(rest) THEN rest
    ELSE Ok(batch.val \o rest.val)

\* entries[start:end] with Python's clamping (start, end >= 0)
Slice(seq, start, end) ==
    IF start >= Len(seq) \/ end <= start
    THEN <<>>
    ELSE SubSeq(seq, start + 1, IF end < Len(seq) THEN end ELSE Len(seq))

----------------------------------------------------------------------------
(* models.py *)

RECURSIVE Flatten(_)
Flatten(sources) ==
    IF sources = <<>> THEN <<>> ELSE Head(sources) \o Flatten(Tail(sources))

RECURSIVE MergeLoop(_, _, _)
MergeLoop(flat, seen, result) ==
    IF flat = <<>>
    THEN Ok(result)
    ELSE LET tag == Head(flat) IN
         IF ~IsStr(tag)
         THEN Raise("AttributeError")
         ELSE LET normalized == Strip(tag.v)
                  lower == Lower(normalized)
              IN IF normalized = <<>>
                 THEN MergeLoop(Tail(flat), seen, result)
                 ELSE IF lower \in seen
                      THEN MergeLoop(Tail(flat), seen, result)
                      ELSE MergeLoop(Tail(flat), seen \cup {lower},
                                     Append(result, normalized))

\* merge_tags that remembers the stripped tag instead of its lower-case form
RECURSIVE MergeLoop_case_sensitive(_, _, _)
MergeLoop_case_sensitive(flat, seen, result) ==
    IF flat = <<>>
    THEN Ok(result)
    ELSE LET tag == Head(flat) IN
         IF ~IsStr(tag)
         THEN Raise("AttributeError")
         ELSE LET normalized == Strip(tag.v) IN
              IF normalized = <<>> \/ normalized \in seen
              THEN MergeLoop_case_sensitive(Tail(flat), seen, result)
              ELSE MergeLoop_case_sensitive(Tail(flat), seen \cup {normalized},
                                            Append(result, normalized))

merge_tags_case_sensitive(sources) ==
    MergeLoop_case_sensitive(Flatten(sources), {}, <<>>)

\* merge_tags(*sources): sources is a sequence of tag sequences
merge_tags(sources) == MergeLoop(Flatten(sources), {}, <<>>)

----------------------------------------------------------------------------
(* urllib.parse on token sequences: a scheme token, a "//host" token, then *)
(* path tokens.                                                            *)

HierSchemes == {"https:", "http:"}
OtherSchemes == {"mailto:"}
Netlocs == {"//www.diner-cadeau.nl", "//staging.example"}

\* settings.py DEFAULT_BASE_URL
DEFAULT_BASE_URL == <<"https:", "//www.diner-cadeau.nl">>

\* a relative path resolved against an origin that has no path of its own
RootedPath(tok) ==
    CASE tok = "r/c" -> "/r/c"
      [] OTHER -> tok

\* urljoin(base, url) for a base of the form scheme://host
urljoin(base, url) ==
    IF url = <<>> THEN base
    ELSE IF Head(url) \in HierSchemes \cup OtherSchemes THEN url
    ELSE IF Head(url) \in Netlocs THEN <<base[1]>> \o url
    ELSE <<base[1], base[2], RootedPath(Head(url))>> \o Tail(url)

\* url.startswith("http")
StartsWithHttp(url) ==
    url # <<>> /\ Head(url) \in {"https:", "http:", "httpfoo"}

----------------------------------------------------------------------------
(* parser.py: dataset filter and record normalizer *)

_DEFAULT_PAGE_SIZE == 50

\* EntryCity with the .lower() call left out
EntryCity_case_sensitive(entry) ==
    IF ~IsDict(entry) THEN Raise("AttributeError")
    ELSE LET c == Or(Get(entry, "city"), S(<<>>)) IN
         IF ~IsStr(c) THEN Raise("AttributeError")
         ELSE Ok(Strip(c.v))

\* (entry.get("city") or "").strip().lower() of line 204; it raises for an
\* element without .get and for a truthy locality without .strip
EntryCity(entry) ==
    IF ~IsDict(entry) THEN Raise("AttributeError")
    ELSE LET c == Or(Get(entry, "city"), S(<<>>)) IN
         IF ~IsStr(c) THEN Raise("AttributeError")
         ELSE Ok(Lower(Strip(c.v)))

\* the list comprehension of line 204: it is left by the first exception
CityMatches(entries, target) ==
    IF \E i \in 1..Len(entries) : Raised(EntryCity(entries[i]))
    THEN Raise("AttributeError")
    ELSE LET Keep(entry) == EntryCity(entry).val = target
         IN Ok(SelectSeq(entries, Keep))

\* _filter_dataset with the page number taken as zero-based
_filter_dataset_zero_based(dataset, city, page_number) ==
    LET filtered ==
            IF Truthy(city)
            THEN CityMatches(dataset, Lower(Strip(city.v)))
            ELSE Ok(dataset)
    IN IF Raised(filtered) THEN filtered
       ELSE IF Truthy(page_number) /\ page_number.v[1] > 0
            THEN LET start == page_number.v[1] * _DEFAULT_PAGE_SIZE
                     end == start + _DEFAULT_PAGE_SIZE
                 IN Ok(Slice(filtered.val, start, end))
            ELSE filtered

_filter_dataset(dataset, city, page_number) ==
    LET filtered ==
            IF Truthy(city)
            THEN CityMatches(dataset, Lower(Strip(city.v)))
            ELSE Ok(dataset)
    IN IF Raised(filtered) THEN filtered
       ELSE IF Truthy(page_number) /\ page_number.v[1] > 0
            THEN LET start == (page_number.v[1] - 1) * _DEFAULT_PAGE_SIZE
                     end == start + _DEFAULT_PAGE_SIZE
                 IN Ok(Slice(filtered.val, start, end))
            ELSE filtered

RECURSIVE _coerce_tags(_)
_coerce_tags(value) ==
    CASE value.t = "null" -> <<>>
      [] value.t = "str" -> <<value>>
      [] value.t = "dict" -> SelectSeq(Values(value), IsStr)
      [] value.t = "list" ->
            IF value.v = <<>> THEN <<>>
            ELSE _coerce_tags(Head(value.v)) \o _coerce_tags(L(Tail(value.v)))
      [] OTHER -> <<S(StrOf(value))>>

\* A Restaurant, reduced to the fields the properties read
Restaurant(name, url, tags) == [name |-> name, url |-> url, tags |-> tags]

_convert_entry(entry, base_url) ==
    IF ~IsDict(entry) THEN Raise("AttributeError")
    ELSE
    LET title == Get(entry, "title")
        link == Get(entry, "linkHref")
    IN IF ~Truthy(title) \/ ~Truthy(link) THEN Ok(Null)
       ELSE IF ~IsStr(link) THEN Raise("TypeError")
       ELSE
       LET url == urljoin(base_url, link.v)
           website == Get(entry, "websiteLinkHref")
           label == Get(entry, "label")
           region == Get(entry, "region")
           meta_tags == _coerce_tags(Get(entry, "metaData"))
           tag_sources ==
               (IF IsStr(label) THEN << <<label>> >> ELSE <<>>)
               \o (IF IsStr(region) THEN << <<region>> >> ELSE <<>>)
               \o (IF meta_tags # <<>> THEN <<meta_tags>> ELSE <<>>)
               \o (IF IsStr(website) THEN << <<website>> >> ELSE <<>>)
           tags == merge_tags(tag_sources)
       IN IF Raised(tags) THEN tags
          ELSE Ok(Restaurant(S(StrOf(title)), S(url), tags.val))

----------------------------------------------------------------------------
(* Sample texts and links of the generated inputs *)

Text_ab == <<"a", "b">>
Text_Ab == <<"A", "b">>
Text_AB == <<"A", "B">>
Text_ab_padded == <<" ", "a", "b", " ">>
Text_ba == <<"b", "a">>
Text_blank == <<" ">>

\* marks a key that a generated object leaves out
Absent == [t |-> "absent", v |-> <<>>]
Present(pair) == pair[2].t # "absent"

\* a decoded JSON object with the keys whose value is not Absent
MkDict(pairs) == D(SelectSeq(pairs, Present))

Url_rel_a == <<"/r/a">>
Url_rel_b == <<"/r/b">>
Url_abs_a == <<"https:", "//www.diner-cadeau.nl", "/r/a">>
Url_site == <<"https:", "//cafe.example">>

Url_abs_b == <<"https:", "//www.diner-cadeau.nl", "/r/b">>
Url_mailto == <<"mailto:", "x@y">>

----------------------------------------------------------------------------
(* Bundle text.  A bundle is a sequence of tokens; positions are 1-based and *)
(* 0 stands for Python's -1.                                                *)

\* source.find(pattern, from): first position at or after from where the
\* token sequence pattern starts
FindFrom(source, pattern, from) ==
    LET hits == { i \in from..(Len(source) - Len(pattern) + 1) :
                    SubSeq(source, i, i + Len(pattern) - 1) = pattern }
    IN IF hits = {} THEN 0 ELSE CHOOSE i \in hits : \A j \in hits : i <= j

Find(source, pattern) == FindFrom(source, pattern, 1)

\* '{"./dc-live.json":' , the target of _load_dataset_context
ContextMarker == "{\"./dc-live.json\":"
\* 'return"static/chunks/"+e+"."+(' , the prefix of _load_chunk_hashes
HashPrefix == "return\"static/chunks/\"+e+\".\"+("
\* 'e.exports=JSON.parse(' , the prefix of _parse_dataset_chunk
JsonParsePrefix == "e.exports=JSON.parse("

\* the token starts with "{" (only such tokens hold a brace)
OpensBrace(tok) == tok \in {"{", ContextMarker}
ClosesBrace(tok) == tok = "}"

\* the brace loop of lines 259-271 and 292-304: the position where the
\* counter returns to zero, 0 when the source ends first
RECURSIVE BraceLoop(_, _, _)
BraceLoop(source, index, brace_count) ==
    IF index > Len(source) THEN 0
    ELSE IF OpensBrace(source[index])
         THEN BraceLoop(source, index + 1, brace_count + 1)
    ELSE IF ClosesBrace(source[index])
         THEN IF brace_count - 1 = 0 THEN index
              ELSE BraceLoop(source, index + 1, brace_count - 1)
    ELSE BraceLoop(source, index + 1, brace_count)

\* a scan that stops at the first closing brace after start
BraceScan_first_close(source, start) ==
    LET hits == { i \in (start + 1)..Len(source) : ClosesBrace(source[i]) }
    IN IF hits = {} THEN 0 ELSE CHOOSE i \in hits : \A j \in hits : i <= j

BraceScan(source, start) == BraceLoop(source, start, 0)

\* d[k] = v on an ordered dict
DictSet(d, k, v) ==
    IF HasKey(d, k)
    THEN D([i \in 1..Len(d.v) |-> IF d.v[i][1] = k THEN <<k, v>> ELSE d.v[i]])
    ELSE D(Append(d.v, <<k, v>>))

\* JSON values that stand as one token in a page bundle
ContextValueTokens == {"[7,3]", "[8,4]", "[7]", "7"}
DecodeContextValue(tok) ==
    CASE tok = "[7,3]" -> L(<<N(7), N(3)>>)
      [] tok = "[8,4]" -> L(<<N(8), N(4)>>)
      [] tok = "[7]" -> L(<<N(7)>>)
      [] OTHER -> N(7)

\* object keys that stand as one token in a page bundle
ContextKeyTokens == {"\"./other.json\":"}

\* json.loads of a fragment that starts with the marker: the members after
\* the first value are , key value pairs up to the closing brace
RECURSIVE JsonMembers(_, _)
JsonMembers(toks, acc) ==
    IF toks = <<"}">> THEN Ok(acc)
    ELSE IF Len(toks) >= 4 /\ toks[1] = "," /\ toks[2] \in ContextKeyTokens
            /\ toks[3] \in ContextValueTokens
         THEN JsonMembers(SubSeq(toks, 4, Len(toks)),
                          DictSet(acc, toks[2], DecodeContextValue(toks[3])))
    ELSE Raise("JSONDecodeError")

JsonLoadsContext(fragment) ==
    IF Len(fragment) >= 3 /\ fragment[1] = ContextMarker
       /\ fragment[2] \in ContextValueTokens
    THEN JsonMembers(SubSeq(fragment, 3, Len(fragment)),
                     D(<< <<"./dc-live.json", DecodeContextValue(fragment[2])>> >>))
    ELSE IF fragment = <<ContextMarker, "{", "}", "}">>
    THEN Ok(D(<< <<"./dc-live.json", D(<<>>)>> >>))
    ELSE Raise("JSONDecodeError")

\* {key: (value[0], value[1]) ...} of line 276
ProjectPairs(context_data) ==
    IF \E i \in 1..Len(context_data.v) : IsDict(context_data.v[i][2])
    THEN Raise("KeyError")
    ELSE IF \E i \in 1..Len(context_data.v) : ~IsList(context_data.v[i][2])
    THEN Raise("TypeError")
    ELSE IF \E i \in 1..Len(context_data.v) : Len(context_data.v[i][2].v) < 2
    THEN Raise("IndexError")
    ELSE Ok(D([i \in 1..Len(context_data.v) |->
                 <<context_data.v[i][1],
                   L(SubSeq(context_data.v[i][2].v, 1, 2))>>]))

\* _load_dataset_context after the download: lines 255-276
ParseDatasetContext(source) ==
    LET marker_index == Find(source, <<ContextMarker>>) IN
    IF marker_index = 0 THEN Raise("ValueError")
    ELSE LET end_index == BraceScan(source, marker_index) IN
         IF end_index = 0 THEN Raise("ValueError")
         ELSE LET context_data ==
                      JsonLoadsContext(SubSeq(source, marker_index, end_index))
              IN IF Raised(context_data) THEN context_data
                 ELSE ProjectPairs(context_data.val)

\* key:"hash" entries that stand as one token in a runtime bundle
HashEntryTokens == {"3:\"h3\"", "4:\"h4\"", "3:\"\""}
HashEntryKey(tok) == IF tok = "4:\"h4\"" THEN N(4) ELSE N(3)
HashEntryValue(tok) ==
    CASE tok = "3:\"h3\"" -> S(<<"h3">>)
      [] tok = "4:\"h4\"" -> S(<<"h4">>)
      [] OTHER -> S(<<>>)

\* the loop over mapping_text.split(","), lines 309-317
RECURSIVE HashEntries(_, _, _)
HashEntries(toks, entry, mapping) ==
    LET closed ==
            IF entry = <<>> THEN Ok(mapping)
            ELSE IF Len(entry) = 1 /\ entry[1] \in HashEntryTokens
                 THEN Ok(DictSet(mapping, HashEntryKey(entry[1]),
                                 HashEntryValue(entry[1])))
            ELSE Raise("ValueError")
    IN IF toks = <<>> THEN closed
       ELSE IF Head(toks) = ","
            THEN IF Raised(closed) THEN closed
                 ELSE HashEntries(Tail(toks), <<>>, closed.val)
       ELSE HashEntries(Tail(toks), Append(entry, Head(toks)), mapping)

\* source.find("{", prefix_index)
FindOpenBrace(source, from) ==
    LET hits == { i \in from..Len(source) : OpensBrace(source[i]) }
    IN IF hits = {} THEN 0 ELSE CHOOSE i \in hits : \A j \in hits : i <= j

\* _load_chunk_hashes after the download: lines 285-317
ParseChunkHashes(source) ==
    LET prefix_index == Find(source, <<HashPrefix>>) IN
    IF prefix_index = 0 THEN Raise("ValueError")
    ELSE LET brace_start == FindOpenBrace(source, prefix_index) IN
         IF brace_start = 0 THEN Raise("ValueError")
         ELSE LET end_index == BraceScan(source, brace_start) IN
              IF end_index = 0 THEN Raise("ValueError")
              ELSE HashEntries(SubSeq(source, brace_start + 1, end_index - 1),
                               <<>>, D(<<>>))

\* the lookbehind loop of lines 357-361: backslashes that end at lookbehind
RECURSIVE CountBackslashes(_, _, _)
CountBackslashes(source, start, lookbehind) ==
    IF lookbehind >= start /\ source[lookbehind] = "\\"
    THEN 1 + CountBackslashes(source, start, lookbehind - 1)
    ELSE 0

RECURSIVE LexLoop(_, _, _, _, _)
LexLoop(source, start, quote, index, buffer) ==
    IF index > Len(source) THEN Raise("ValueError")
    ELSE IF source[index] = quote
            /\ CountBackslashes(source, start, index - 1) % 2 = 0
         THEN Ok(<<buffer, index>>)
    ELSE LexLoop(source, start, quote, index + 1, Append(buffer, source[index]))

\* a lexer that takes the first later quote character for the end
RECURSIVE LexLoop_first_quote(_, _, _, _)
LexLoop_first_quote(source, quote, index, buffer) ==
    IF index > Len(source) THEN Raise("ValueError")
    ELSE IF source[index] = quote THEN Ok(<<buffer, index>>)
    ELSE LexLoop_first_quote(source, quote, index + 1,
                             Append(buffer, source[index]))

_extract_js_string_first_quote(source, start, quote) ==
    LexLoop_first_quote(source, quote, start + 1, <<>>)

\* _extract_js_string(source, start, quote): <<raw text, closing position>>
_extract_js_string(source, start, quote) ==
    LexLoop(source, start, quote, start + 1, <<>>)

\* bytes(raw, "utf-8").decode("unicode_escape") on quotes and backslashes
RECURSIVE UnicodeEscape(_)
UnicodeEscape(raw) ==
    IF raw = <<>> THEN <<>>
    ELSE IF Head(raw) = "\\" /\ Len(raw) >= 2 /\ raw[2] \in {"'", "\"", "\\"}
         THEN <<raw[2]>> \o UnicodeEscape(SubSeq(raw, 3, Len(raw)))
    ELSE <<Head(raw)>> \o UnicodeEscape(Tail(raw))

\* Raw records, each standing as one token of JSON text in a dataset chunk
Record_1 ==
    MkDict(<< <<"title", S(Text_ab)>>, <<"linkHref", S(Url_rel_a)>>,
              <<"city", S(Text_ab)>>, <<"label", S(<<" ", "a", "b">>)>>,
              <<"metaData", D(<< <<"a", S(Text_ba)>> >>)>> >>)
Record_2 ==
    MkDict(<< <<"title", S(Text_ba)>>, <<"linkHref", S(Url_abs_b)>>,
              <<"city", S(<<"A", "b", " ">>)>>, <<"region", S(Text_Ab)>> >>)
\* its title holds an apostrophe
Record_3 ==
    MkDict(<< <<"title", S(<<"a", "'", "b">>)>>, <<"linkHref", S(<<"r/c">>)>>,
              <<"city", S(Text_ba)>>, <<"websiteLinkHref", S(Url_site)>> >>)
Record_no_title ==
    MkDict(<< <<"linkHref", S(Url_rel_a)>>, <<"city", S(Text_ab)>> >>)
Record_empty_link ==
    MkDict(<< <<"title", S(Text_ab)>>, <<"linkHref", S(<<>>)>>,
              <<"city", S(Text_ab)>> >>)
Record_number_link ==
    MkDict(<< <<"title", S(Text_ab)>>, <<"linkHref", N(5)>>,
              <<"city", S(Text_ab)>> >>)
Record_number_city ==
    MkDict(<< <<"title", S(Text_ab)>>, <<"linkHref", S(Url_rel_b)>>,
              <<"city", N(5)>> >>)
Record_mailto ==
    MkDict(<< <<"title", N(5)>>, <<"linkHref", S(Url_mailto)>> >>)
Element_string == S(<<"x">>)

RecordTokens ==
    {"R1", "R2", "Rnotitle", "Remptylink", "Rnumlink", "Rnumcity", "Rmailto",
     "\"x\""}
DecodeRecordToken(tok) ==
    CASE tok = "R1" -> Record_1
      [] tok = "R2" -> Record_2
      [] tok = "Rnotitle" -> Record_no_title
      [] tok = "Remptylink" -> Record_empty_link
      [] tok = "Rnumlink" -> Record_number_link
      [] tok = "Rnumcity" -> Record_number_city
      [] tok = "Rmailto" -> Record_mailto
      [] OTHER -> Element_string

\* the JSON text of Record_3 is cut in two by its apostrophe
Record_3_text == <<"R3a", "'", "R3b">>

\* json.loads of the elements of a JSON array, after the opening bracket
RECURSIVE JsonItems(_, _)
JsonItems(toks, acc) ==
    LET width == IF toks # <<>> /\ Head(toks) \in RecordTokens THEN 1
                 ELSE IF Len(toks) >= 3 /\ SubSeq(toks, 1, 3) = Record_3_text
                      THEN 3 ELSE 0
        item == IF width = 1 THEN DecodeRecordToken(Head(toks)) ELSE Record_3
        rest == SubSeq(toks, width + 1, Len(toks))
    IN IF width = 0 THEN Raise("JSONDecodeError")
       ELSE IF rest = <<"]">> THEN Ok(L(Append(acc, item)))
       ELSE IF Len(rest) >= 2 /\ Head(rest) = ","
            THEN JsonItems(Tail(rest), Append(acc, item))
       ELSE Raise("JSONDecodeError")

\* json.loads of the text of a dataset literal
JsonLoadsDataset(text) ==
    IF text = <<"{}">> THEN Ok(D(<<>>))
    ELSE IF text = <<"[", "]">> THEN Ok(L(<<>>))
    ELSE IF text # <<>> /\ Head(text) = "[" THEN JsonItems(Tail(text), <<>>)
    ELSE Raise("JSONDecodeError")

_parse_dataset_chunk(source, module_id) ==
    LET marker == Append(StrOf(module_id), ":")
        start_index == Find(source, marker)
    IN IF start_index = 0 THEN Raise("ValueError")
       ELSE
       LET prefix_index == FindFrom(source, <<JsonParsePrefix>>, start_index) IN
       IF prefix_index = 0 THEN Raise("ValueError")
       ELSE
       LET literal_start == prefix_index + 1 IN
       IF literal_start > Len(source) THEN Raise("IndexError")
       ELSE IF source[literal_start] \notin {"'", "\""} THEN Raise("ValueError")
       ELSE
       LET lexed == _extract_js_string(source, literal_start,
                                       source[literal_start]) IN
       IF Raised(lexed) THEN lexed
       ELSE
       LET data == JsonLoadsDataset(UnicodeEscape(lexed.val[1])) IN
       IF Raised(data) THEN data
       ELSE IF ~IsList(data.val) THEN Raise("ValueError")
       ELSE Ok(data.val.v)

----------------------------------------------------------------------------
(* parser.py: the fallback strategies.  A script element is a record        *)
(* [type, text, data]: text tells whether the element has text and whether  *)
(* json.loads (or the window.__NUXT__ pattern) accepts it, data is the      *)
(* decoded value; src is the src attribute, <<>> without one.               *)

Script(type, text, data) ==
    [type |-> type, src |-> <<>>, text |-> text, data |-> data]

\* <script src=...>, without text
SrcScript(src) == [type |-> "", src |-> src, text |-> "empty", data |-> Null]

\* the dicts one structured-data element yields, lines 31-44
LdItems(node) ==
    IF node.text # "json" THEN <<>>
    ELSE IF IsDict(node.data) THEN <<node.data>>
    ELSE IF IsList(node.data) THEN SelectSeq(node.data.v, IsDict)
    ELSE <<>>

RECURSIVE _iter_ld_json(_)
_iter_ld_json(nodes) ==
    IF nodes = <<>> THEN <<>>
    ELSE (IF Head(nodes).type = "application/ld+json"
          THEN LdItems(Head(nodes)) ELSE <<>>) \o _iter_ld_json(Tail(nodes))

\* _parse_rating: rating.get fails on a truthy aggregateRating that is no dict
_parse_rating(data) ==
    LET rating == Or(Get(data, "aggregateRating"), D(<<>>)) IN
    IF ~IsDict(rating) THEN Raise("AttributeError")
    ELSE Ok(<<Get(rating, "ratingValue"),
              Or(Get(rating, "reviewCount"), Get(rating, "ratingCount"))>>)

RestaurantTypes == { S(<<"Restaurant">>), S(<<"FoodEstablishment">>) }

_extract_from_ld_json(data) ==
    IF Get(data, "@type").t \in {"list", "dict"} THEN Raise("TypeError")
    ELSE IF Get(data, "@type") \notin RestaurantTypes THEN Ok(Null)
    ELSE
    LET name == Get(data, "name")
        url == Or(Get(data, "url"), Get(data, "@id"))
    IN IF ~Truthy(name) THEN Ok(Null)
       ELSE IF ~Truthy(url) THEN Ok(Null)
       ELSE
       LET rating == _parse_rating(data)
           cuisines == Get(data, "servesCuisine")
           tags == IF IsStr(cuisines) THEN <<cuisines>>
                   ELSE IF IsList(cuisines)
                        THEN [i \in 1..Len(cuisines.v) |-> S(StrOf(cuisines.v[i]))]
                   ELSE <<>>
           merged == merge_tags(<< tags,
                                   << GetDefault(data, "@type", S(<<>>)),
                                      GetDefault(data, "category", S(<<>>)) >> >>)
       IN IF Raised(rating) THEN rating
          ELSE IF Raised(merged) THEN merged
          ELSE Ok(Restaurant(name, url, merged.val))

\* the loop of lines 157-160: the entities of the blocks, or the first
\* exception
RECURSIVE StrategyAEntities(_)
StrategyAEntities(items) ==
    IF items = <<>> THEN Ok(<<>>)
    ELSE Collect(_extract_from_ld_json(Head(items)),
                 StrategyAEntities(Tail(items)))

\* the payload one script element yields, lines 452-473 (<<>> for none)
ScriptPayload(script) ==
    IF script.text = "empty" THEN <<>>
    ELSE IF script.type = "application/json"
         THEN IF script.text = "json" /\ script.data # Null
              THEN <<script.data>> ELSE <<>>
    ELSE IF script.text = "nuxt" /\ script.data # Null
         THEN <<script.data>> ELSE <<>>

RECURSIVE _iter_script_payloads(_)
_iter_script_payloads(scripts) ==
    IF scripts = <<>> THEN <<>>
    ELSE ScriptPayload(Head(scripts)) \o _iter_script_payloads(Tail(scripts))

_looks_like_restaurant(entry) ==
    /\ Truthy(Or(Get(entry, "name"), Get(entry, "title")))
    /\ \E key \in {"slug", "url", "link", "permalink"} : HasKey(entry, key)
    /\ \E key \in {"address", "location", "city", "plaats"} : HasKey(entry, key)

\* the work stack of lines 490-504; decoded JSON shares no objects, so the
\* identity guard never skips
RECURSIVE CandidateLoop(_)
CandidateLoop(stack) ==
    IF stack = <<>> THEN <<>>
    ELSE LET current == stack[Len(stack)]
             rest == SubSeq(stack, 1, Len(stack) - 1)
         IN IF IsDict(current)
            THEN (IF _looks_like_restaurant(current) THEN <<current>> ELSE <<>>)
                 \o CandidateLoop(rest \o Values(current))
            ELSE IF IsList(current)
                 THEN CandidateLoop(rest \o current.v)
            ELSE CandidateLoop(rest)

_iter_candidate_dicts(payload) == CandidateLoop(<<payload>>)

_normalize_iterable(value) ==
    CASE value.t = "null" -> <<>>
      [] value.t = "dict" ->
            [i \in 1..Len(value.v) |-> S(StrOf(value.v[i][2]))]
      [] value.t = "list" -> [i \in 1..Len(value.v) |-> S(StrOf(value.v[i]))]
      [] value.t = "str" -> <<value>>
      [] OTHER -> <<S(StrOf(value))>>

\* next((item for item in url if isinstance(item, str)), None)
FirstString(items) ==
    LET strs == SelectSeq(items, IsStr) IN
    IF strs = <<>> THEN Null ELSE Head(strs)

\* lines 523-530: the link of a candidate
UrlOfDict(url) ==
    IF IsDict(url) THEN Or(Get(url, "href"), Get(url, "url")) ELSE url
UrlOfSequence(url) == IF IsList(url) THEN FirstString(url.v) ELSE url
UrlUnwrapped(url) ==
    IF Truthy(url) THEN UrlOfSequence(UrlOfDict(url)) ELSE url
UrlResolved(url) ==
    IF IsStr(url) /\ ~StartsWithHttp(url.v)
    THEN S(urljoin(DEFAULT_BASE_URL, url.v))
    ELSE url
CandidateUrl(entry) ==
    UrlResolved(UrlUnwrapped(
        Or(Or(Or(Get(entry, "url"), Get(entry, "permalink")),
              Get(entry, "link")), Get(entry, "slug"))))

_convert_candidate(entry) ==
    LET name == Or(Get(entry, "name"), Get(entry, "title")) IN
    IF ~Truthy(name) THEN Ok(Null)
    ELSE
    LET url == CandidateUrl(entry)
        tags_source ==
            _normalize_iterable(Get(entry, "categories"))
            \o _normalize_iterable(Get(entry, "labels"))
            \o _normalize_iterable(Get(entry, "tags"))
            \o _normalize_iterable(Get(entry, "cuisines"))
        tags == merge_tags(<<tags_source>>)
    IN IF Raised(tags) THEN tags
       ELSE Ok(Restaurant(name, Or(url, S(<<>>)), tags.val))

\* _parse_nuxt_payload: the entities of the candidates, in traversal order
RECURSIVE ConvertCandidates(_)
ConvertCandidates(entries) ==
    IF entries = <<>> THEN Ok(<<>>)
    ELSE Collect(_convert_candidate(Head(entries)),
                 ConvertCandidates(Tail(entries)))

_parse_nuxt_payload(payload) == ConvertCandidates(_iter_candidate_dicts(payload))

\* the loop of lines 169-171 without "not in seen_urls"
RECURSIVE DedupLoop_unseen(_, _, _)
DedupLoop_unseen(found, seen_urls, restaurants) ==
    IF found = <<>> THEN Ok(restaurants)
    ELSE LET restaurant == Head(found) IN
         IF ~Truthy(restaurant.url)
         THEN DedupLoop_unseen(Tail(found), seen_urls, restaurants)
         ELSE IF restaurant.url.t \in {"dict", "list"}
              THEN Raise("TypeError")
         ELSE DedupLoop_unseen(Tail(found), seen_urls,
                               Append(restaurants, restaurant))

\* the loop of lines 169-171 without "restaurant.url and"
RECURSIVE DedupLoop_unguarded(_, _, _)
DedupLoop_unguarded(found, seen_urls, restaurants) ==
    IF found = <<>> THEN Ok(restaurants)
    ELSE LET restaurant == Head(found) IN
         IF restaurant.url.t \in {"dict", "list"}
         THEN Raise("TypeError")
         ELSE IF restaurant.url \in seen_urls
              THEN DedupLoop_unguarded(Tail(found), seen_urls, restaurants)
         ELSE DedupLoop_unguarded(Tail(found), seen_urls \cup {restaurant.url},
                                  Append(restaurants, restaurant))

\* lines 169-171 over the entities of all payloads: an entity is kept when
\* its url is truthy and not seen; an unhashable url leaves the loop
RECURSIVE DedupLoop(_, _, _)
DedupLoop(found, seen_urls, restaurants) ==
    IF found = <<>> THEN Ok(restaurants)
    ELSE LET restaurant == Head(found) IN
         IF ~Truthy(restaurant.url)
         THEN DedupLoop(Tail(found), seen_urls, restaurants)
         ELSE IF restaurant.url.t \in {"dict", "list"}
              THEN Raise("TypeError")
         ELSE IF restaurant.url \in seen_urls
              THEN DedupLoop(Tail(found), seen_urls, restaurants)
         ELSE DedupLoop(Tail(found), seen_urls \cup {restaurant.url},
                        Append(restaurants, restaurant))

\* lines 166-173: payload by payload; an exception of a later payload is
\* raised after the earlier ones were processed all the same
RECURSIVE PayloadEntities(_)
PayloadEntities(payloads) ==
    IF payloads = <<>> THEN Ok(<<>>)
    ELSE CollectAll(_parse_nuxt_payload(Head(payloads)),
                    PayloadEntities(Tail(payloads)))

\* the seen_urls loop over what the payloads gave
Dedup(found) ==
    IF Raised(found) THEN found ELSE DedupLoop(found.val, {}, <<>>)

StrategyBEntities(scripts) ==
    Dedup(PayloadEntities(_iter_script_payloads(scripts)))

----------------------------------------------------------------------------
(* State after import: empty caches, nothing fetched, no invocation yet *)

EmptyCache == [k \in {} |-> Null]
NoInv ==
    [html |-> <<>>, page_url |-> Null, city |-> Null, page_number |-> Null,
     base_url |-> DEFAULT_BASE_URL, page_chunk_url |-> <<>>,
     webpack_url |-> <<>>, module_id |-> Null, chunk_id |-> Null,
     chunk_hash |-> Null, dataset |-> <<>>, primary_error |-> "none",
     cache_hit |-> FALSE, ranA |-> FALSE, ranB |-> FALSE, known |-> {}]
NoOutcome ==
    [kind |-> "none", via |-> "none", restaurants |-> <<>>, exc |-> "none"]
NoProbe == [fn |-> "none"]

EngineInit ==
    /\ CONTEXT_CACHE = EmptyCache
    /\ CHUNK_HASH_CACHE = EmptyCache
    /\ DATASET_CACHE = EmptyCache
    /\ fetchLog = <<>>
    /\ calls = 0
    /\ pc = "idle"
    /\ inv = NoInv
    /\ outcome = NoOutcome
    /\ decoded = EmptyCache

(* parser.py: asset discovery and the origin of a page *)

\* src attributes of the script elements of a listing page
WebpackSrcs == {"/_next/static/chunks/webpack-1.js"}
PageChunkSrcs ==
    {"/_next/static/chunks/pages/%5Blayout%5D/%5B%5B...slug%5D%5D-1.js",
     "/_next/static/chunks/pages/%5Blayout%5D/%5B%5B...slug%5D%5D-2.js"}
OtherSrc == "/_next/static/chunks/main-1.js"

\* "static/chunks/webpack-" in src
IsWebpackSrc(src) == \E i \in 1..Len(src) : src[i] \in WebpackSrcs
\* "static/chunks/pages/%5Blayout%5D/%5B%5B...slug%5D%5D" in src
IsPageChunkSrc(src) == \E i \in 1..Len(src) : src[i] \in PageChunkSrcs

\* _infer_base_url(page_url): scheme://netloc of the page, or the default
_infer_base_url(page_url) ==
    IF ~Truthy(page_url) THEN DEFAULT_BASE_URL
    ELSE IF Len(page_url.v) < 2 \/ page_url.v[1] \notin HierSchemes
            \/ page_url.v[2] \notin Netlocs
         THEN DEFAULT_BASE_URL
    ELSE <<page_url.v[1], page_url.v[2]>>

\* the loop of lines 238-245 over the script elements that carry a src;
\* <<>> stands for None
RECURSIVE DiscoverLoop(_, _, _, _)
DiscoverLoop(scripts, base_url, webpack_url, page_chunk_url) ==
    IF scripts = <<>> \/ (webpack_url # <<>> /\ page_chunk_url # <<>>)
    THEN <<page_chunk_url, webpack_url>>
    ELSE LET src == Head(scripts).src IN
         IF src = <<>>
         THEN DiscoverLoop(Tail(scripts), base_url, webpack_url, page_chunk_url)
         ELSE IF IsWebpackSrc(src)
         THEN DiscoverLoop(Tail(scripts), base_url, urljoin(base_url, src),
                           page_chunk_url)
         ELSE IF IsPageChunkSrc(src)
         THEN DiscoverLoop(Tail(scripts), base_url, webpack_url,
                           urljoin(base_url, src))
         ELSE DiscoverLoop(Tail(scripts), base_url, webpack_url, page_chunk_url)

_discover_asset_urls(soup, base_url) ==
    LET urls == DiscoverLoop(soup, base_url, <<>>, <<>>) IN
    IF urls[1] = <<>> \/ urls[2] = <<>> THEN Raise("ValueError")
    ELSE Ok(urls)

\* f"/_next/static/chunks/{chunk_id}.{chunk_hash}.js" joined to the origin
ChunkUrl(base_url, chunk_id, chunk_hash) ==
    urljoin(base_url, <<"/_next/static/chunks/">> \o StrOf(chunk_id)
                      \o <<".">> \o chunk_hash.v \o <<".js">>)

\* the entities of lines 151-152, or the first exception
RECURSIVE ConvertEntries(_, _)
ConvertEntries(entries, base_url) ==
    IF entries = <<>> THEN Ok(<<>>)
    ELSE Collect(_convert_entry(Head(entries), base_url),
                 ConvertEntries(Tail(entries), base_url))

\* _filter_dataset, then _convert_entry on what it keeps (lines 151-154)
NormalizeDataset(dataset, city, page_number, base_url) ==
    LET entries == _filter_dataset(dataset, city, page_number) IN
    IF Raised(entries) THEN entries
    ELSE ConvertEntries(entries.val, base_url)

----------------------------------------------------------------------------
(* Listing pages of the environment *)

Ld(text, data) == Script("application/ld+json", text, data)
Json(text, data) == Script("application/json", text, data)
Inline(text, data) == Script("", text, data)

Type_Restaurant == S(<<"Restaurant">>)
Type_FoodEstablishment == S(<<"FoodEstablishment">>)

\* structured-data blocks
Ld_rel ==
    D(<< <<"@type", Type_Restaurant>>, <<"name", S(Text_ab)>>,
         <<"url", S(Url_rel_a)>>, <<"servesCuisine", S(Text_Ab)>>,
         <<"category", S(Text_AB)>> >>)
Ld_abs ==
    D(<< <<"@type", Type_FoodEstablishment>>, <<"name", S(Text_ba)>>,
         <<"@id", S(Url_abs_b)>>,
         <<"servesCuisine", L(<<S(Text_ab), N(5)>>)>>,
         <<"aggregateRating", D(<< <<"ratingValue", S(<<"x">>)>> >>)>> >>)
Ld_other_type ==
    D(<< <<"@type", S(<<"Organization">>)>>, <<"name", S(Text_ab)>>,
         <<"url", S(Url_abs_a)>> >>)
Ld_no_type == D(<< <<"name", S(Text_ab)>>, <<"url", S(Url_abs_a)>> >>)
Ld_no_name == D(<< <<"@type", Type_Restaurant>>, <<"url", S(Url_abs_a)>> >>)
Ld_no_url == D(<< <<"@type", Type_Restaurant>>, <<"name", S(Text_ab)>> >>)
Ld_list_type ==
    D(<< <<"@type", L(<<Type_Restaurant>>)>>, <<"name", S(Text_ab)>>,
         <<"url", S(Url_abs_a)>> >>)
Ld_number_category ==
    D(<< <<"@type", Type_Restaurant>>, <<"name", S(Text_ab)>>,
         <<"url", S(Url_abs_a)>>, <<"category", N(5)>> >>)
Ld_text_rating ==
    D(<< <<"@type", Type_Restaurant>>, <<"name", S(Text_ab)>>,
         <<"url", S(Url_abs_a)>>, <<"aggregateRating", S(<<"5">>)>> >>)

\* embedded payload candidates
Cand_rel ==
    D(<< <<"name", S(Text_ab)>>, <<"slug", S(Url_rel_a)>>,
         <<"city", S(Text_ab)>>, <<"tags", L(<<S(Text_ab), N(5)>>)>> >>)
Cand_abs_same ==
    D(<< <<"title", S(Text_ba)>>, <<"url", S(Url_abs_a)>>,
         <<"address", D(<<>>)>> >>)
Cand_httpfoo ==
    D(<< <<"name", S(Text_ab)>>, <<"link", S(<<"httpfoo">>)>>,
         <<"location", Null>> >>)
Cand_number_url ==
    D(<< <<"name", S(Text_ab)>>, <<"slug", N(5)>>, <<"city", S(Text_ab)>> >>)
Cand_nested_href ==
    D(<< <<"name", S(Text_ab)>>,
         <<"url", D(<< <<"href", D(<< <<"x", N(1)>> >>)>> >>)>>,
         <<"city", S(Text_ab)>> >>)
Cand_href ==
    D(<< <<"name", S(Text_ab)>>,
         <<"url", D(<< <<"href", S(Url_rel_b)>> >>)>>,
         <<"plaats", S(Text_ab)>> >>)
Cand_list_url ==
    D(<< <<"name", S(Text_Ab)>>,
         <<"permalink", L(<<N(1), S(Url_rel_b)>>)>>,
         <<"plaats", S(Text_ab)>> >>)
Cand_null_url ==
    D(<< <<"name", S(Text_ab)>>, <<"slug", Null>>, <<"city", S(Text_ab)>> >>)
Cand_no_name ==
    D(<< <<"slug", S(Url_rel_a)>>, <<"city", S(Text_ab)>> >>)
Not_candidate == D(<< <<"name", S(Text_ab)>> >>)

Payload_a == D(<< <<"data", L(<<Cand_rel, Not_candidate, Cand_abs_same>>)>> >>)
Payload_b ==
    L(<<Cand_list_url, D(<< <<"nested", Cand_httpfoo>> >>), Cand_number_url,
        Cand_null_url, Cand_href, Cand_no_name, N(5)>>)
Payload_c == D(<< <<"x", Cand_rel>>, <<"y", Cand_nested_href>> >>)

Src_webpack == SrcScript(<<"/_next/static/chunks/webpack-1.js">>)
Src_page_1 ==
    SrcScript(<<"/_next/static/chunks/pages/%5Blayout%5D/%5B%5B...slug%5D%5D-1.js">>)
Src_page_2 ==
    SrcScript(<<"/_next/static/chunks/pages/%5Blayout%5D/%5B%5B...slug%5D%5D-2.js">>)
Src_other == SrcScript(<<OtherSrc>>)

\* html: the script elements of a page, in document order
Htmls ==
    { <<Src_webpack, Src_page_1>>,
      <<Src_other, Src_page_2, Src_webpack, Src_page_1, Ld("json", Ld_rel)>>,
      <<Src_webpack, Src_page_1, Ld("json", Ld_list_type)>>,
      <<Src_webpack, Src_page_1, Ld("json", Ld_rel), Ld("json", Ld_abs),
        Inline("nuxt", Payload_a)>>,
      <<Src_webpack, Ld("garbage", Null), Ld("json", Ld_other_type),
        Ld("empty", Null), Ld("json", L(<<Ld_abs, N(5), Ld_no_type>>)),
        Ld("json", Ld_no_name), Ld("json", Ld_no_url)>>,
      <<Ld("json", Ld_abs), Ld("json", Ld_number_category)>>,
      <<Ld("json", Ld_text_rating), Json("json", Payload_a)>>,
      <<Src_page_1, Ld("json", Ld_other_type), Json("garbage", Null),
        Json("json", Payload_a), Inline("nuxt", Payload_b),
        Inline("text", Null)>>,
      <<Json("json", Payload_c)>>,
      <<Ld("garbage", Null), Json("json", Null), Inline("nuxt", N(5)),
        Inline("text", Null), Json("json", Not_candidate)>>,
      <<>> }

PageUrls ==
    { Null, S(<<"http:", "//staging.example", "/restaurants">>),
      S(<<"/restaurants">>) }

\* city and page_number of an invocation
CallFilters == { <<Null, Null>>, <<S(Text_AB), N(1)>> }

----------------------------------------------------------------------------
(* Responses of the site: what _fetch_text returns or raises for a URL *)

TransportError == Raise("RequestException")

Hash_3 == "3:\"h3\""
Hash_4 == "4:\"h4\""
Hash_3_empty == "3:\"\""

PageBundleResponses ==
    { TransportError,
      Ok(<<"x", ContextMarker, "[7,3]", "}", "x">>),
      Ok(<<ContextMarker, "[8,4]", ",", "\"./other.json\":", "[7,3]", "}", "}">>),
      Ok(<<"x", "{", "}", "x">>),
      Ok(<<ContextMarker, "[7,3]", "{">>),
      Ok(<<ContextMarker, "[7,3]", "x", "}">>),
      Ok(<<ContextMarker, "[7]", "}">>),
      Ok(<<ContextMarker, "7", "}">>),
      Ok(<<ContextMarker, "{", "}", "}">>) }

RuntimeResponses ==
    { TransportError,
      Ok(<<"x", HashPrefix, "{", Hash_3, ",", Hash_4, "}", "x">>),
      Ok(<<HashPrefix, "x", "{", Hash_4, ",", "}">>),
      Ok(<<HashPrefix, "{", Hash_3_empty, "}">>),
      Ok(<<"{", Hash_3, "}">>),
      Ok(<<HashPrefix, "x">>),
      Ok(<<HashPrefix, "{", "{", Hash_3, "}">>),
      Ok(<<HashPrefix, "{", "x", "}">>) }

\* module 7 of a dataset chunk, with the given text between single quotes
Module_7(text) ==
    <<"x", "7", ":", "function(e){", JsonParsePrefix, "'">> \o text
    \o <<"'", ")", "}">>

ChunkResponses ==
    { TransportError,
      Ok(Module_7(<<"[", "R1", ",", "R2", ",", "R3a", "\\", "'", "R3b", "]">>)),
      Ok(Module_7(<<"[", "Rnotitle", ",", "R1", ",", "Remptylink", "]">>)),
      Ok(Module_7(<<"[", "Rnumlink", "]">>)),
      Ok(Module_7(<<"[", "\"x\"", ",", "R1", "]">>)),
      Ok(Module_7(<<"[", "Rnumcity", ",", "R1", "]">>)),
      Ok(Module_7(<<"[", "Rmailto", "]">>)),
      Ok(Module_7(<<"[", "]">>)),
      Ok(Module_7(<<"{}">>)),
      Ok(Module_7(<<"[", "R1", ",", "]">>)),
      Ok(<<"1", "7", ":", JsonParsePrefix, "'", "[", "]", "'", ")", ",",
           "7", ":", JsonParsePrefix, "\"", "[", "R1", "]", "\"", ")">>),
      Ok(<<"8", ":", JsonParsePrefix, "\"", "[", "R2", "]", "\"">>),
      Ok(<<"x", "9", ":", "x">>),
      Ok(<<"7", ":", "x">>),
      Ok(<<"7", ":", JsonParsePrefix>>),
      Ok(<<"7", ":", JsonParsePrefix, "(", "[", "]", ")">>),
      Ok(<<"7", ":", JsonParsePrefix, "'", "[", "R1", "]">>) }

----------------------------------------------------------------------------
(* parse_listing_page, one step per download or stage *)

\* an assignment that empties the cache first
CachePut_fresh(cache, key, value) == [k \in {key} |-> value]

\* cache[key] = value
CachePut(cache, key, value) ==
    [k \in DOMAIN cache \cup {key} |-> IF k = key THEN value ELSE cache[k]]

\* an except clause that names ValueError only
ExceptValueError(exc) == exc = "ValueError"

\* "except Exception" of line 147: the exceptions the clause catches
ExceptException(exc) == TRUE

\* a dataset cache that is never consulted
DatasetCached_never(page_chunk_url) == FALSE

\* "page_chunk_url in _DATASET_CACHE" of line 214
DatasetCached(page_chunk_url) == page_chunk_url \in DOMAIN DATASET_CACHE

\* the call ends: it returns restaurants, or exc leaves it
Return(via, restaurants) ==
    [kind |-> "returned", via |-> via, restaurants |-> restaurants,
     exc |-> "none"]
Propagate(via, exc) ==
    [kind |-> "raised", via |-> via, restaurants |-> <<>>, exc |-> exc]

\* a stage that ends the call with its result
Ended(via, result) ==
    IF Raised(result) THEN Propagate(via, result.exc)
    ELSE Return(via, result.val)

\* an exception inside the try block of lines 145-146
PrimaryFailed(exc, current) ==
    IF ExceptException(exc)
    THEN /\ pc' = "strategyA"
         /\ inv' = [current EXCEPT !.primary_error = exc]
         /\ outcome' = outcome
    ELSE /\ pc' = "idle"
         /\ inv' = current
         /\ outcome' = Propagate("load", exc)

\* parse_listing_page(html, city=, page_number=, page_url=): lines 141-142
Call ==
    /\ pc = "idle"
    /\ calls < MaxCalls
    /\ \E html \in Htmls, page_url \in PageUrls, filter \in CallFilters :
          inv' = [html |-> html, page_url |-> page_url, city |-> filter[1],
                  page_number |-> filter[2],
                  base_url |-> _infer_base_url(page_url),
                  page_chunk_url |-> <<>>, webpack_url |-> <<>>,
                  module_id |-> Null, chunk_id |-> Null, chunk_hash |-> Null,
                  dataset |-> <<>>, primary_error |-> "none",
                  cache_hit |-> FALSE, ranA |-> FALSE, ranB |-> FALSE,
                  known |-> DOMAIN decoded]
    /\ calls' = calls + 1
    /\ pc' = "discover"
    /\ fetchLog' = <<>>
    /\ outcome' = NoOutcome
    /\ UNCHANGED <<CONTEXT_CACHE, CHUNK_HASH_CACHE, DATASET_CACHE, decoded,
                   probe>>

\* _load_dc_live_dataset, lines 213-215
Discover ==
    /\ pc = "discover"
    /\ LET urls == _discover_asset_urls(inv.html, inv.base_url) IN
       IF Raised(urls) THEN PrimaryFailed(urls.exc, inv)
       ELSE LET found == [inv EXCEPT !.page_chunk_url = urls.val[1],
                                     !.webpack_url = urls.val[2]]
            IN IF DatasetCached(urls.val[1])
               THEN /\ pc' = "normalize"
                    /\ inv' = [found EXCEPT
                                  !.dataset = DATASET_CACHE[urls.val[1]],
                                  !.cache_hit = TRUE]
                    /\ outcome' = outcome
               ELSE /\ pc' = "context"
                    /\ inv' = found
                    /\ outcome' = outcome
    /\ UNCHANGED <<CONTEXT_CACHE, CHUNK_HASH_CACHE, DATASET_CACHE, fetchLog,
                   calls, decoded, probe>>

\* a loader that asks for the dataset chunk right after the context
ContextLoaded_skip_hashes(context) ==
    LET dataset_entry == Get(context, "./dc-live.json") IN
    IF ~Truthy(dataset_entry) THEN PrimaryFailed("ValueError", inv)
    ELSE /\ pc' = "chunk"
         /\ inv' = [inv EXCEPT !.module_id = dataset_entry.v[1],
                               !.chunk_id = dataset_entry.v[2]]
         /\ outcome' = outcome

\* lines 218-222: the dataset entry of the context
ContextLoaded(context) ==
    LET dataset_entry == Get(context, "./dc-live.json") IN
    IF ~Truthy(dataset_entry) THEN PrimaryFailed("ValueError", inv)
    ELSE /\ pc' = "hashes"
         /\ inv' = [inv EXCEPT !.module_id = dataset_entry.v[1],
                               !.chunk_id = dataset_entry.v[2]]
         /\ outcome' = outcome

\* _load_dataset_context, lines 252-253: the context is in the cache
LoadContextCached ==
    /\ pc = "context"
    /\ inv.page_chunk_url \in DOMAIN CONTEXT_CACHE
    /\ ContextLoaded(CONTEXT_CACHE[inv.page_chunk_url])
    /\ UNCHANGED <<CONTEXT_CACHE, CHUNK_HASH_CACHE, DATASET_CACHE, fetchLog,
                   calls, decoded, probe>>

\* _load_dataset_context, lines 254-278: download and parse the page bundle
LoadContextFetch ==
    /\ pc = "context"
    /\ inv.page_chunk_url \notin DOMAIN CONTEXT_CACHE
    /\ fetchLog' = Append(fetchLog, inv.page_chunk_url)
    /\ \E response \in PageBundleResponses :
          LET context == IF Raised(response) THEN response
                         ELSE ParseDatasetContext(response.val)
          IN IF Raised(context)
             THEN /\ PrimaryFailed(context.exc, inv)
                  /\ UNCHANGED CONTEXT_CACHE
             ELSE /\ CONTEXT_CACHE' =
                         CachePut(CONTEXT_CACHE, inv.page_chunk_url, context.val)
                  /\ ContextLoaded(context.val)
    /\ UNCHANGED <<CHUNK_HASH_CACHE, DATASET_CACHE, calls, decoded, probe>>

\* lines 224-227: the hash of the dataset chunk
HashesLoaded(chunk_hashes) ==
    LET chunk_hash == Get(chunk_hashes, inv.chunk_id) IN
    IF ~Truthy(chunk_hash) THEN PrimaryFailed("ValueError", inv)
    ELSE /\ pc' = "chunk"
         /\ inv' = [inv EXCEPT !.chunk_hash = chunk_hash]
         /\ outcome' = outcome

\* _load_chunk_hashes, lines 282-283: the hashes are in the cache
LoadHashesCached ==
    /\ pc = "hashes"
    /\ inv.webpack_url \in DOMAIN CHUNK_HASH_CACHE
    /\ HashesLoaded(CHUNK_HASH_CACHE[inv.webpack_url])
    /\ UNCHANGED <<CONTEXT_CACHE, CHUNK_HASH_CACHE, DATASET_CACHE, fetchLog,
                   calls, decoded, probe>>

\* _load_chunk_hashes, lines 284-319: download and parse the runtime bundle
LoadHashesFetch ==
    /\ pc = "hashes"
    /\ inv.webpack_url \notin DOMAIN CHUNK_HASH_CACHE
    /\ fetchLog' = Append(fetchLog, inv.webpack_url)
    /\ \E response \in RuntimeResponses :
          LET mapping == IF Raised(response) THEN response
                         ELSE ParseChunkHashes(response.val)
          IN IF Raised(mapping)
             THEN /\ PrimaryFailed(mapping.exc, inv)
                  /\ UNCHANGED CHUNK_HASH_CACHE
             ELSE /\ CHUNK_HASH_CACHE' =
                         CachePut(CHUNK_HASH_CACHE, inv.webpack_url, mapping.val)
                  /\ HashesLoaded(mapping.val)
    /\ UNCHANGED <<CONTEXT_CACHE, DATASET_CACHE, calls, decoded, probe>>

\* a loader that stores an empty list under the page bundle before the
\* chunk is decoded and leaves it there when the decoding fails
LoadChunk_write_first ==
    /\ pc = "chunk"
    /\ fetchLog' = Append(fetchLog,
                          ChunkUrl(inv.base_url, inv.chunk_id, inv.chunk_hash))
    /\ \E response \in ChunkResponses :
          LET dataset == IF Raised(response) THEN response
                         ELSE _parse_dataset_chunk(response.val, inv.module_id)
          IN IF Raised(dataset)
             THEN /\ PrimaryFailed(dataset.exc, inv)
                  /\ DATASET_CACHE' =
                         CachePut(DATASET_CACHE, inv.page_chunk_url, <<>>)
                  /\ UNCHANGED decoded
             ELSE /\ DATASET_CACHE' =
                         CachePut(DATASET_CACHE, inv.page_chunk_url, dataset.val)
                  /\ decoded' =
                         IF inv.page_chunk_url \in DOMAIN decoded THEN decoded
                         ELSE CachePut(decoded, inv.page_chunk_url, dataset.val)
                  /\ pc' = "normalize"
                  /\ inv' = [inv EXCEPT !.dataset = dataset.val]
                  /\ outcome' = outcome
    /\ UNCHANGED <<CONTEXT_CACHE, CHUNK_HASH_CACHE, calls, probe>>

\* lines 229-232: download and parse the dataset chunk, fill the cache
LoadChunk ==
    /\ pc = "chunk"
    /\ fetchLog' = Append(fetchLog,
                          ChunkUrl(inv.base_url, inv.chunk_id, inv.chunk_hash))
    /\ \E response \in ChunkResponses :
          LET dataset == IF Raised(response) THEN response
                         ELSE _parse_dataset_chunk(response.val, inv.module_id)
          IN IF Raised(dataset)
             THEN /\ PrimaryFailed(dataset.exc, inv)
                  /\ UNCHANGED <<DATASET_CACHE, decoded>>
             ELSE /\ DATASET_CACHE' =
                         CachePut(DATASET_CACHE, inv.page_chunk_url, dataset.val)
                  /\ decoded' =
                         IF inv.page_chunk_url \in DOMAIN decoded THEN decoded
                         ELSE CachePut(decoded, inv.page_chunk_url, dataset.val)
                  /\ pc' = "normalize"
                  /\ inv' = [inv EXCEPT !.dataset = dataset.val]
                  /\ outcome' = outcome
    /\ UNCHANGED <<CONTEXT_CACHE, CHUNK_HASH_CACHE, calls, probe>>

\* the else block of lines 150-154
Normalize ==
    /\ pc = "normalize"
    /\ outcome' = Ended("primary",
                        NormalizeDataset(inv.dataset, inv.city,
                                         inv.page_number, inv.base_url))
    /\ pc' = "idle"
    /\ UNCHANGED <<CONTEXT_CACHE, CHUNK_HASH_CACHE, DATASET_CACHE, fetchLog,
                   calls, inv, decoded, probe>>

\* Strategy A, lines 157-164
StrategyA ==
    /\ pc = "strategyA"
    /\ inv' = [inv EXCEPT !.ranA = TRUE]
    /\ LET restaurants == StrategyAEntities(_iter_ld_json(inv.html)) IN
       IF Raised(restaurants)
       THEN /\ outcome' = Propagate("A", restaurants.exc)
            /\ pc' = "idle"
       ELSE IF restaurants.val # <<>>
       THEN /\ outcome' = Return("A", restaurants.val)
            /\ pc' = "idle"
       ELSE /\ outcome' = outcome
            /\ pc' = "strategyB"
    /\ UNCHANGED <<CONTEXT_CACHE, CHUNK_HASH_CACHE, DATASET_CACHE, fetchLog,
                   calls, decoded, probe>>

\* Strategy B, lines 166-173
StrategyB ==
    /\ pc = "strategyB"
    /\ inv' = [inv EXCEPT !.ranB = TRUE]
    /\ outcome' = Ended("B", StrategyBEntities(inv.html))
    /\ pc' = "idle"
    /\ UNCHANGED <<CONTEXT_CACHE, CHUNK_HASH_CACHE, DATASET_CACHE, fetchLog,
                   calls, decoded, probe>>

Init ==
    /\ EngineInit
    /\ probe = NoProbe

Next ==
    \/ Call
    \/ Discover
    \/ LoadContextCached
    \/ LoadContextFetch
    \/ LoadHashesCached
    \/ LoadHashesFetch
    \/ LoadChunk
    \/ Normalize
    \/ StrategyA
    \/ StrategyB

Spec == Init /\ [][Next]_vars

\* an invocation has ended
Done == calls > 0 /\ pc = "idle"

----------------------------------------------------------------------------
(* _filter_dataset called directly on generated record sequences *)

\* record i of a generated dataset; c = "absent" leaves the city key out
FilterRecord(i, c) ==
    IF c.t = "absent"
    THEN D(<< <<"id", N(i)>> >>)
    ELSE IF c.t = "notdict"
    THEN S(<<"x">>)
    ELSE D(<< <<"id", N(i)>>, <<"city", c>> >>)

\* localities a decoded record can carry: strings, null, absent
WellTypedCities ==
    << S(Text_ab), Absent, S(Text_Ab), S(Text_ba), S(Text_ab_padded),
       Null, S(<<>>), S(Text_blank), N(0) >>

\* ... and shapes the JSON decoder also yields: a number, a non-mapping element
AnyCities == WellTypedCities \o << N(5), [t |-> "notdict"] >>

CityPools == <<WellTypedCities, AnyCities>>

GenDataset(n, pool, stride) ==
    [i \in 1..n |->
        FilterRecord(i, CityPools[pool][((i * stride) % Len(CityPools[pool])) + 1])]

FilterCities ==
    { Null, S(<<>>), S(Text_ab), S(Text_AB), S(<<" ", "a", "b">>),
      S(Text_blank), S(<<"c">>) }

FilterPages == { Null, N(0), N(-1), N(1), N(2), N(3), N(10) }

InitFilter ==
    /\ EngineInit
    /\ \E n \in 0..MaxRecords, pool \in 1..Len(CityPools), stride \in {1, 2},
          city \in FilterCities, page_number \in FilterPages :
          probe = [fn |-> "_filter_dataset", stage |-> "call",
                   dataset |-> GenDataset(n, pool, stride),
                   welltyped |-> (pool = 1),
                   city |-> city, page_number |-> page_number,
                   out |-> Ok(<<>>)]

FilterCall ==
    /\ probe.fn = "_filter_dataset" /\ probe.stage = "call"
    /\ probe' = [probe EXCEPT
                    !.stage = "done",
                    !.out = _filter_dataset(probe.dataset, probe.city,
                                            probe.page_number)]
    /\ UNCHANGED engineVars

NextFilter == FilterCall

SpecFilter == InitFilter /\ [][NextFilter]_vars

FilterDone == probe.fn = "_filter_dataset" /\ probe.stage = "done"

----------------------------------------------------------------------------
(* Properties of _filter_dataset *)

Min(a, b) == IF a < b THEN a ELSE b
Max(a, b) == IF a > b THEN a ELSE b

PageGiven == probe.page_number.t = "num" /\ probe.page_number.v[1] >= 1

\* seq is exactly the window of base that page n of the fixed size covers
IsPageWindow(seq, base, n) ==
    LET off == (n - 1) * _DEFAULT_PAGE_SIZE IN
    /\ Len(seq) = Max(0, Min(_DEFAULT_PAGE_SIZE, Len(base) - off))
    /\ \A k \in 1..Len(seq) : seq[k] = base[off + k]

\* C5: for every record sequence and every page number N >= 1 the result is
\* the records at zero-based offsets (N-1)*50 .. N*50-1 in their order, and an
\* empty sequence, not an exception, when (N-1)*50 is past the end.  The
\* offsets count in the sequence the window is cut from: the input when no
\* locality filter is given, the locality-filtered records otherwise.
TheoremC5 ==
    (FilterDone /\ PageGiven) =>
        LET n == probe.page_number.v[1] IN
        /\ ~Truthy(probe.city) =>
              /\ ~Raised(probe.out)
              /\ IsPageWindow(probe.out.val, probe.dataset, n)
        /\ (Truthy(probe.city) /\ probe.welltyped) =>
              /\ ~Raised(probe.out)
              /\ IsPageWindow(probe.out.val,
                              _filter_dataset(probe.dataset, probe.city, Null).val,
                              n)

\* 120 records: page 3 is the 20 records at positions 100..119, and page 10
\* of another call is empty
WitnessC5 ==
    /\ FilterDone /\ ~Truthy(probe.city)
    /\ Len(probe.dataset) = 120
    /\ probe.page_number = N(3)
    /\ Len(probe.out.val) = 20
    /\ probe.out.val[1] = probe.dataset[101]
    /\ probe.out.val[20] = probe.dataset[120]

\* the text of a record's locality; an absent, null or empty one has none
CityText(r) ==
    IF IsDict(r) /\ IsStr(Get(r, "city")) THEN Get(r, "city").v ELSE <<>>

\* record i of the input is among the returned records (ids are unique)
Returned(i) ==
    \E k \in 1..Len(probe.out.val) : probe.out.val[k] = probe.dataset[i]

\* the returned records are input records in their input order
KeepsOrder ==
    /\ \A k \in 1..Len(probe.out.val) :
          \E i \in 1..Len(probe.dataset) : probe.out.val[k] = probe.dataset[i]
    /\ \A k1, k2 \in 1..Len(probe.out.val) :
          k1 < k2 => Get(probe.out.val[k1], "id").v[1] < Get(probe.out.val[k2], "id").v[1]

\* a locality filter was supplied and no page window cuts the result
LocalityOnly ==
    /\ FilterDone /\ probe.welltyped
    /\ Truthy(probe.city)
    /\ ~PageGiven

----------------------------------------------------------------------------
(* _convert_entry called directly on generated raw records *)

EntryTitlesLinks ==
    { <<S(Text_ab), S(Url_rel_a)>>, <<S(Text_ab), S(Url_abs_a)>>,
      <<Absent, S(Url_rel_a)>>, <<S(Text_ab), Absent>>,
      <<S(<<>>), S(Url_rel_a)>>, <<S(Text_ab), S(<<>>)>>,
      <<N(5), S(<<"r/c">>)>>, <<S(Text_ab), N(5)>>,
      <<S(Text_ab), L(<<S(Url_rel_a)>>)>> }

EntryLabels ==
    { Absent, Null, N(5), S(Text_ab), S(Text_Ab), S(<<" ", "a", "b">>),
      S(Text_blank), S(<<>>) }

EntryRegions == { Absent, S(Text_Ab), S(Text_ba), S(<<"b", "a", " ">>) }

EntryMetaData ==
    { Absent, Null, S(Text_AB), N(7),
      D(<< <<"a", S(Text_ba)>> >>),
      D(<< <<"a", S(Text_Ab)>>, <<"b", N(5)>>, <<"c", S(<<"B", "a">>)>> >>),
      L(<< S(Text_ba), N(7), L(<< S(Text_ab) >>) >>),
      L(<< D(<< <<"k", S(<<"c">>)>>, <<"n", Null>> >>), Null, S(Text_blank) >>) }

EntryWebsites == { Absent, S(Url_site), S(Text_AB), N(5) }

InitEntry ==
    /\ EngineInit
    /\ \E tl \in EntryTitlesLinks, label \in EntryLabels,
          region \in EntryRegions, meta \in EntryMetaData,
          website \in EntryWebsites :
          probe = [fn |-> "_convert_entry", stage |-> "call",
                   entry |-> MkDict(<< <<"title", tl[1]>>, <<"linkHref", tl[2]>>,
                                       <<"label", label>>, <<"region", region>>,
                                       <<"metaData", meta>>,
                                       <<"websiteLinkHref", website>> >>),
                   base_url |-> DEFAULT_BASE_URL,
                   out |-> Ok(Null)]

EntryCall ==
    /\ probe.fn = "_convert_entry" /\ probe.stage = "call"
    /\ probe' = [probe EXCEPT
                    !.stage = "done",
                    !.out = _convert_entry(probe.entry, probe.base_url)]
    /\ UNCHANGED engineVars

NextEntry == EntryCall

SpecEntry == InitEntry /\ [][NextEntry]_vars

\* _convert_entry returned an entity
EntryNormalized ==
    /\ probe.fn = "_convert_entry" /\ probe.stage = "done"
    /\ ~Raised(probe.out)
    /\ probe.out.val # Null

----------------------------------------------------------------------------
(* Properties of the tag list *)

TextOf(x) == x.v

\* the tag candidates of a raw record in source order, as texts: label,
\* region, the metadata values _coerce_tags collects, website link
SourceTags(entry) ==
    LET one(x) == IF IsStr(x) THEN <<x.v>> ELSE <<>>
        meta == _coerce_tags(Get(entry, "metaData"))
    IN one(Get(entry, "label")) \o one(Get(entry, "region"))
       \o [i \in 1..Len(meta) |-> meta[i].v]
       \o one(Get(entry, "websiteLinkHref"))

\* seq without every element that equals an earlier one ignoring case
RECURSIVE FirstOccurrences(_)
FirstOccurrences(seq) ==
    IF seq = <<>> THEN <<>>
    ELSE LET front == SubSeq(seq, 1, Len(seq) - 1)
             last == seq[Len(seq)]
         IN IF \E j \in 1..Len(front) : Lower(front[j]) = Lower(last)
            THEN FirstOccurrences(front)
            ELSE Append(FirstOccurrences(front), last)

NotBlank(s) == Strip(s) # <<>>

NoTwoEqualIgnoringCase(tags) ==
    \A i, j \in 1..Len(tags) : i # j => Lower(tags[i]) # Lower(tags[j])

\* C10 as stated: the tag list is the source-order concatenation with blank
\* tags removed and later case-insensitive repeats removed, the tags
\* themselves untouched.
OriginalC10 ==
    EntryNormalized =>
        /\ probe.out.val.tags
             = FirstOccurrences(SelectSeq(SourceTags(probe.entry), NotBlank))
        /\ NoTwoEqualIgnoringCase(probe.out.val.tags)

\* C10 amended: every tag is first stripped of surrounding whitespace; the tag
\* list is the source-order concatenation of the stripped tags with empty ones
\* removed and every tag that equals an earlier one ignoring case removed, so
\* the first occurrence keeps its position and casing and no two tags are
\* equal ignoring case.
TheoremC10 ==
    EntryNormalized =>
        LET src == SourceTags(probe.entry)
            stripped == [i \in 1..Len(src) |-> Strip(src[i])]
        IN /\ probe.out.val.tags
                = FirstOccurrences(SelectSeq(stripped, NotBlank))
           /\ NoTwoEqualIgnoringCase(probe.out.val.tags)

\* label " ab", region "Ab", metadata {"a": "ba"}: the first occurrence stays,
\* stripped, the region repeats it and is dropped, the metadata value follows
WitnessC10 ==
    /\ EntryNormalized
    /\ Get(probe.entry, "label") = S(<<" ", "a", "b">>)
    /\ Get(probe.entry, "region") = S(Text_Ab)
    /\ Get(probe.entry, "metaData") = D(<< <<"a", S(Text_ba)>> >>)
    /\ probe.out.val.tags = <<Text_ab, Text_ba>>

----------------------------------------------------------------------------
(* Properties of parse_listing_page *)

\* the invocation resolved its page to a page-bundle URL whose dataset an
\* earlier invocation had loaded
KnownBundle == calls > 0 /\ inv.page_chunk_url \in inv.known

\* C1: once the dataset of a page-bundle URL has been loaded, every later
\* invocation whose page resolves to that URL downloads nothing (its fetch
\* log stays empty), never leaves the primary path, and works from the
\* dataset that was decoded first for that URL.
TheoremC1 ==
    KnownBundle =>
        /\ fetchLog = <<>>
        /\ pc \in {"normalize", "idle"}
        /\ inv.primary_error = "none"
        /\ inv.cache_hit
        /\ inv.dataset = decoded[inv.page_chunk_url]
        /\ DATASET_CACHE[inv.page_chunk_url] = decoded[inv.page_chunk_url]
        /\ pc = "idle" => outcome.via = "primary"

\* a second invocation returned entities from the cached dataset
WitnessC1 ==
    /\ KnownBundle
    /\ calls = 2
    /\ pc = "idle"
    /\ outcome.kind = "returned"
    /\ Len(outcome.restaurants) = 3
    /\ fetchLog = <<>>

\* C2: no exception of the primary path reaches the caller; after a failure
\* of the primary path the invocation is in the fallback sequence, and when
\* it has ended Strategy A has run.
TheoremC2 ==
    /\ outcome.via # "load"
    /\ inv.primary_error # "none" =>
          /\ pc \in {"strategyA", "strategyB", "idle"}
          /\ pc # "strategyA" => inv.ranA
          /\ pc = "idle" => outcome.via \in {"A", "B"}

\* a transport error of the dataset chunk download was caught and the
\* fallback sequence returned
WitnessC2 ==
    /\ pc = "idle"
    /\ inv.primary_error = "RequestException"
    /\ Len(fetchLog) = 3
    /\ inv.ranA
    /\ outcome.kind = "returned"

\* C3 as stated: whenever the fallback sequence has run, the invocation
\* returns (an empty sequence when nothing was found) and does not raise.
OriginalC3 ==
    (pc = "idle" /\ inv.ranA) => outcome.kind = "returned"

\* the entity of a structured-data block, <<>> when it gives none or raises
BlockEntity(data) ==
    LET restaurant == _extract_from_ld_json(data) IN
    IF Raised(restaurant) THEN <<>>
    ELSE IF restaurant.val = Null THEN <<>> ELSE <<restaurant.val>>

\* the entities of the blocks that give one, in page order
RECURSIVE BlockEntities(_)
BlockEntities(items) ==
    IF items = <<>> THEN <<>>
    ELSE BlockEntity(Head(items)) \o BlockEntities(Tail(items))

\* C4 as stated: when the primary path failed and a structured-data block
\* of the page yields an entity, the invocation returns exactly the entities
\* of those blocks, in page order, and Strategy B does not run.
OriginalC4 ==
    (/\ pc = "idle"
     /\ inv.primary_error # "none"
     /\ BlockEntities(_iter_ld_json(inv.html)) # <<>>)
    => /\ outcome.kind = "returned"
       /\ outcome.via = "A"
       /\ outcome.restaurants = BlockEntities(_iter_ld_json(inv.html))
       /\ ~inv.ranB

\* C7 as stated: once the dataset is loaded, the invocation returns; no
\* record shape makes it raise.
OriginalC7 ==
    (pc = "idle" /\ calls > 0 /\ inv.primary_error = "none")
    => outcome.kind = "returned"

\* C8: every entity an invocation returns has a non-empty name and a
\* non-empty URL, whichever strategy produced it.
TheoremC8 ==
    outcome.kind = "returned" =>
        \A i \in 1..Len(outcome.restaurants) :
            /\ Truthy(outcome.restaurants[i].name)
            /\ Truthy(outcome.restaurants[i].url)

\* the payload search returned entities from a page that also holds a
\* candidate without a link
WitnessC8 ==
    /\ pc = "idle"
    /\ outcome.kind = "returned"
    /\ outcome.via = "B"
    /\ Len(outcome.restaurants) >= 3
    /\ \E i \in 1..Len(inv.html) : inv.html[i].data = Payload_b

\* a URL with a scheme and a host
IsAbsolute(url) ==
    /\ IsStr(url)
    /\ Len(url.v) >= 2
    /\ url.v[1] \in HierSchemes
    /\ url.v[2] \in Netlocs \cup {"//cafe.example"}

\* C9 as stated: the URL of every returned entity is absolute.
OriginalC9 ==
    outcome.kind = "returned" =>
        \A i \in 1..Len(outcome.restaurants) :
            IsAbsolute(outcome.restaurants[i].url)

----------------------------------------------------------------------------
(* _extract_js_string called directly on generated source texts *)

LexAtoms == {"'", "\"", "\\", "a"}
Quotes == {"'", "\""}

\* every text of 1..MaxSource atoms
LexSources == UNION { [1..n -> LexAtoms] : n \in 1..MaxSource }

InitLexer ==
    /\ EngineInit
    /\ \E source \in LexSources :
          \E start \in { i \in 1..Len(source) : source[i] \in Quotes } :
             probe = [fn |-> "_extract_js_string", stage |-> "call",
                      source |-> source, start |-> start,
                      out |-> Raise("none yet")]

LexerCall ==
    /\ probe.fn = "_extract_js_string" /\ probe.stage = "call"
    /\ probe' = [probe EXCEPT
                    !.stage = "done",
                    !.out = _extract_js_string(probe.source, probe.start,
                                               probe.source[probe.start])]
    /\ UNCHANGED engineVars

NextLexer == LexerCall

SpecLexer == InitLexer /\ [][NextLexer]_vars

LexerDone == probe.fn = "_extract_js_string" /\ probe.stage = "done"

----------------------------------------------------------------------------
(* Properties of _extract_js_string *)

\* the number of consecutive backslashes that end just before position j
BackslashRun(source, j) ==
    CHOOSE k \in 0..(j - 1) :
        /\ \A i \in (j - k)..(j - 1) : source[i] = "\\"
        /\ (j - k - 1 >= 1 => source[j - k - 1] # "\\")

\* position j holds the quote character after an even backslash run
ClosesLiteral(source, quote, j) ==
    source[j] = quote /\ BackslashRun(source, j) % 2 = 0

\* the positions after start that close the literal
Closings(source, start) ==
    { j \in (start + 1)..Len(source) :
          ClosesLiteral(source, source[start], j) }

\* C11: _extract_js_string returns the text between the opening quote and
\* the first later quote character that follows an even number of
\* consecutive backslashes, with the position of that character; a quote
\* after an odd number of backslashes does not end the literal; without a
\* closing quote the call raises ValueError.
TheoremC11 ==
    LexerDone =>
        LET closings == Closings(probe.source, probe.start) IN
        IF closings = {}
        THEN probe.out = Raise("ValueError")
        ELSE LET end == CHOOSE j \in closings : \A k \in closings : j <= k
             IN probe.out =
                    Ok(<<SubSeq(probe.source, probe.start + 1, end - 1), end>>)

\* a literal that holds an escaped quote and ends at a later one
WitnessC11 ==
    /\ LexerDone
    /\ ~Raised(probe.out)
    /\ \E i \in 1..Len(probe.out.val[1]) :
          probe.out.val[1][i] = probe.source[probe.start]
    /\ probe.out.val[2] < Len(probe.source)

----------------------------------------------------------------------------
(* The brace scan called directly on generated source texts *)

BraceAtoms == {"{", "}", "a"}

\* every text of 1..MaxBraceSource atoms
BraceSources == UNION { [1..n -> BraceAtoms] : n \in 1..MaxBraceSource }

InitBrace ==
    /\ EngineInit
    /\ \E source \in BraceSources :
          \E start \in { i \in 1..Len(source) : OpensBrace(source[i]) } :
             probe = [fn |-> "brace scan", stage |-> "call",
                      source |-> source, start |-> start,
                      out |-> Raise("none yet")]

\* the loop and the end_index test that follows it (lines 259-273, 292-306)
BraceCall ==
    /\ probe.fn = "brace scan" /\ probe.stage = "call"
    /\ LET end_index == BraceScan(probe.source, probe.start) IN
       probe' = [probe EXCEPT
                    !.stage = "done",
                    !.out = IF end_index = 0 THEN Raise("ValueError")
                            ELSE Ok(end_index)]
    /\ UNCHANGED engineVars

NextBrace == BraceCall

SpecBrace == InitBrace /\ [][NextBrace]_vars

BraceDone == probe.fn = "brace scan" /\ probe.stage = "done"

----------------------------------------------------------------------------
(* Properties of the brace scan *)

\* opening minus closing braces among positions from..to
Depth(source, from, to) ==
    Cardinality({ i \in from..to : source[i] = "{" })
    - Cardinality({ i \in from..to : source[i] = "}" })

\* the closing braces after start where the depth is back at zero
ZeroDepths(source, start) ==
    { j \in (start + 1)..Len(source) :
          source[j] = "}" /\ Depth(source, start, j) = 0 }

\* C12: started at an opening brace, the scan stops at the first closing
\* brace where the depth (opening minus closing braces since the start) is
\* zero; the depth is positive everywhere before it, so that brace matches
\* the opening one; when the depth never returns to zero the scan fails.
TheoremC12 ==
    BraceDone =>
        LET zeros == ZeroDepths(probe.source, probe.start) IN
        IF zeros = {}
        THEN probe.out = Raise("ValueError")
        ELSE /\ ~Raised(probe.out)
             /\ probe.out.val \in zeros
             /\ \A j \in zeros : probe.out.val <= j
             /\ \A m \in probe.start..(probe.out.val - 1) :
                   Depth(probe.source, probe.start, m) > 0

\* the scan passed an inner pair of braces and stopped before the end
WitnessC12 ==
    /\ BraceDone
    /\ ~Raised(probe.out)
    /\ \E m \in probe.start..probe.out.val :
          Depth(probe.source, probe.start, m) = 3
    /\ probe.out.val < Len(probe.source)

----------------------------------------------------------------------------
(* _parse_dataset_chunk called directly on generated chunks.  A chunk is a  *)
(* sequence of modules id:function(e){...}, separated by commas.            *)

ModuleIds == {7, 9, 17}
ModuleBodies == {"R1", "R2", "empty", "no JSON.parse"}

\* the JSON text a module body wraps, and the list it decodes to
BodyJson(body) ==
    CASE body = "R1" -> <<"[", "R1", "]">>
      [] body = "R2" -> <<"[", "R2", "]">>
      [] OTHER -> <<"[", "]">>
BodyData(body) ==
    CASE body = "R1" -> <<Record_1>>
      [] body = "R2" -> <<Record_2>>
      [] OTHER -> <<>>

ModuleText(module) ==
    StrOf(N(module.id)) \o <<":", "function(e){">>
    \o (IF module.body = "no JSON.parse" THEN <<"x">>
        ELSE <<JsonParsePrefix, "'">> \o BodyJson(module.body) \o <<"'", ")">>)
    \o <<"}">>

RECURSIVE ChunkText(_)
ChunkText(modules) ==
    IF Len(modules) = 1 THEN ModuleText(modules[1])
    ELSE ModuleText(Head(modules)) \o <<",">> \o ChunkText(Tail(modules))

\* chunks of 1..MaxModules modules with distinct ids
Chunks ==
    { modules \in UNION { [1..n -> [id : ModuleIds, body : ModuleBodies]] :
                              n \in 1..MaxModules } :
          \A i, j \in 1..Len(modules) : modules[i].id = modules[j].id => i = j }

InitChunk ==
    /\ EngineInit
    /\ \E modules \in Chunks, module_id \in {7, 9} :
          probe = [fn |-> "_parse_dataset_chunk", stage |-> "call",
                   modules |-> modules, module_id |-> module_id,
                   out |-> Raise("none yet")]

ChunkCall ==
    /\ probe.fn = "_parse_dataset_chunk" /\ probe.stage = "call"
    /\ probe' = [probe EXCEPT
                    !.stage = "done",
                    !.out = _parse_dataset_chunk(ChunkText(probe.modules),
                                                 N(probe.module_id))]
    /\ UNCHANGED engineVars

NextChunk == ChunkCall

SpecChunk == InitChunk /\ [][NextChunk]_vars

ChunkDone == probe.fn = "_parse_dataset_chunk" /\ probe.stage = "done"

----------------------------------------------------------------------------
(* Properties of _parse_dataset_chunk *)

\* the modules of the chunk that carry the requested id
RequestedModules == { i \in 1..Len(probe.modules) :
                  probe.modules[i].id = probe.module_id }

\* C13 as stated: the call decodes the literal of the module whose id equals
\* the requested id; it fails when the chunk has no such module and when
\* that module wraps no JSON.parse.
OriginalC13 ==
    ChunkDone =>
        IF RequestedModules = {} THEN Raised(probe.out)
        ELSE LET module == probe.modules[CHOOSE i \in RequestedModules : TRUE] IN
             IF module.body = "no JSON.parse" THEN Raised(probe.out)
             ELSE probe.out = Ok(BodyData(module.body))

----------------------------------------------------------------------------
(* Properties of Strategy B *)

\* what the payloads of the page give, payload by payload in page order and
\* candidate by candidate in traversal order
Candidates == PayloadEntities(_iter_script_payloads(inv.html)).val

\* the entity at position i has a URL and no earlier entity has the same
FirstSeenAt(all, i) ==
    /\ Truthy(all[i].url)
    /\ \A j \in 1..(i - 1) : all[j].url # all[i].url

RECURSIVE FirstSeen(_, _)
FirstSeen(all, i) ==
    IF i > Len(all) THEN <<>>
    ELSE (IF FirstSeenAt(all, i) THEN <<all[i]>> ELSE <<>>)
         \o FirstSeen(all, i + 1)

StrategyBReturned ==
    pc = "idle" /\ outcome.kind = "returned" /\ outcome.via = "B"

\* C14: what Strategy B returns holds no two entities with the same URL, and
\* it is the sequence of the entities met first for their URL, in the order
\* in which they were met.
TheoremC14 ==
    StrategyBReturned =>
        /\ \A i, j \in 1..Len(outcome.restaurants) :
              outcome.restaurants[i].url = outcome.restaurants[j].url => i = j
        /\ outcome.restaurants = FirstSeen(Candidates, 1)

\* Strategy B dropped a later entity whose URL had been seen, and kept more
\* than one entity
WitnessC14 ==
    /\ StrategyBReturned
    /\ Len(outcome.restaurants) >= 2
    /\ \E i \in 1..Len(Candidates) :
          Truthy(Candidates[i].url) /\ ~FirstSeenAt(Candidates, i)

----------------------------------------------------------------------------
(* Properties of the downloads of one invocation *)

\* the URL of the dataset chunk as the invocation would build it
InvChunkUrl == ChunkUrl(inv.base_url, inv.chunk_id, inv.chunk_hash)

Downloaded(url) == \E i \in 1..Len(fetchLog) : fetchLog[i] = url

\* C15: the downloads of one invocation are the page bundle, the runtime
\* bundle and the dataset chunk in that order, each at most once (a cached
\* one is left out); the runtime bundle is requested only after the context
\* of the page bundle is known, the dataset chunk only after module
\* reference and chunk hash are resolved.
TheoremC15 ==
    LET page == inv.page_chunk_url
        runtime == inv.webpack_url
        chunk == InvChunkUrl
    IN /\ fetchLog \in { <<>>, <<page>>, <<runtime>>, <<chunk>>,
                         <<page, runtime>>, <<page, chunk>>,
                         <<runtime, chunk>>, <<page, runtime, chunk>> }
       /\ Downloaded(runtime) =>
             /\ page \in DOMAIN CONTEXT_CACHE
             /\ inv.module_id # Null
             /\ inv.chunk_id # Null
       /\ Downloaded(chunk) =>
             /\ page \in DOMAIN CONTEXT_CACHE
             /\ runtime \in DOMAIN CHUNK_HASH_CACHE
             /\ inv.module_id # Null
             /\ Truthy(inv.chunk_hash)
             /\ CHUNK_HASH_CACHE[runtime] # D(<<>>)

\* an invocation downloaded all three assets and returned entities
WitnessC15 ==
    /\ pc = "idle"
    /\ fetchLog = <<inv.page_chunk_url, inv.webpack_url, InvChunkUrl>>
    /\ outcome.kind = "returned"
    /\ outcome.restaurants # <<>>

----------------------------------------------------------------------------
(* Properties of the caches *)

\* every entry of before is an entry of after, with the same value
Extends(before, after) ==
    \A k \in DOMAIN before : k \in DOMAIN after /\ after[k] = before[k]

\* C16: no step removes an entry from the asset-map cache, the chunk-hash
\* cache or the dataset cache, or replaces its value: each cache only grows.
TheoremC16 ==
    [][/\ Extends(CONTEXT_CACHE, CONTEXT_CACHE')
       /\ Extends(CHUNK_HASH_CACHE, CHUNK_HASH_CACHE')
       /\ Extends(DATASET_CACHE, DATASET_CACHE')]_vars

\* two invocations have filled each cache with two entries
WitnessC16 ==
    /\ calls = 2
    /\ pc = "idle"
    /\ Cardinality(DOMAIN CONTEXT_CACHE) = 2
    /\ Cardinality(DOMAIN CHUNK_HASH_CACHE) = 2
    /\ Cardinality(DOMAIN DATASET_CACHE) = 2

----------------------------------------------------------------------------
(* Two invocations of _load_dc_live_dataset for the same page, taking turns *)
(* at the downloads.  The site serves one text per URL; a download either   *)
(* delivers it or fails in transport.                                       *)

Threads == {1, 2}

RacePageUrl == urljoin(DEFAULT_BASE_URL, Src_page_1.src)
RaceWebpackUrl == urljoin(DEFAULT_BASE_URL, Src_webpack.src)

RacePageTexts ==
    { <<"x", ContextMarker, "[7,3]", "}", "x">>,
      <<ContextMarker, "[8,4]", ",", "\"./other.json\":", "[7,3]", "}", "}">>,
      <<"x", "{", "}", "x">> }
RaceRuntimeTexts ==
    { <<"x", HashPrefix, "{", Hash_3, ",", Hash_4, "}", "x">>,
      <<HashPrefix, "x", "{", Hash_4, ",", "}">>,
      <<HashPrefix, "{", Hash_3_empty, "}">>,
      <<HashPrefix, "x">> }
RaceChunkTexts ==
    { Module_7(<<"[", "R1", ",", "R2", "]">>),
      <<"8", ":", JsonParsePrefix, "\"", "[", "R2", "]", "\"">>,
      Module_7(<<"{}">>) }

NewThread ==
    [pc |-> "discover", module_id |-> Null, chunk_id |-> Null,
     chunk_hash |-> Null, failed |-> FALSE]

InitRace ==
    /\ EngineInit
    /\ \E page \in RacePageTexts, runtime \in RaceRuntimeTexts,
          chunk \in RaceChunkTexts :
          probe = [fn |-> "race",
                   world |-> [page |-> page, runtime |-> runtime,
                              chunk |-> chunk],
                   threads |-> [t \in Threads |-> NewThread]]

\* a cache that holds an empty placeholder when the parse raised
RaceWrite_partial(cache, key, result) ==
    CachePut(cache, key, IF Raised(result) THEN D(<<>>) ELSE result.val)

\* the cache assignments of lines 231, 277 and 318: reached only when the
\* parse before them returned
RaceWrite(cache, key, result) ==
    IF Raised(result) THEN cache ELSE CachePut(cache, key, result.val)

\* what a download gives: the text of the URL, or a transport error
Delivered(text, arrives) == IF arrives THEN Ok(text) ELSE TransportError

\* the invocation leaves the try block with an exception
ThreadFailed(th) == [th EXCEPT !.pc = "done", !.failed = TRUE]

\* lines 218-222 for one invocation
AfterContext(th, context) ==
    IF ~Truthy(Get(context, "./dc-live.json")) THEN ThreadFailed(th)
    ELSE [th EXCEPT !.pc = "hashes",
                    !.module_id = Get(context, "./dc-live.json").v[1],
                    !.chunk_id = Get(context, "./dc-live.json").v[2]]

\* lines 224-227 for one invocation
AfterHashes(th, chunk_hashes) ==
    IF ~Truthy(Get(chunk_hashes, th.chunk_id)) THEN ThreadFailed(th)
    ELSE [th EXCEPT !.pc = "chunk",
                    !.chunk_hash = Get(chunk_hashes, th.chunk_id)]

\* a parse result carried on: the next stage, or the failure
ThenContext(th, result) ==
    IF Raised(result) THEN ThreadFailed(th) ELSE AfterContext(th, result.val)
ThenHashes(th, result) ==
    IF Raised(result) THEN ThreadFailed(th) ELSE AfterHashes(th, result.val)
ThenDataset(th, result) ==
    IF Raised(result) THEN ThreadFailed(th) ELSE [th EXCEPT !.pc = "done"]

\* the parse of what a download gave; a failed download raises before it
ParsedContext(result) ==
    IF Raised(result) THEN result ELSE ParseDatasetContext(result.val)
ParsedHashes(result) ==
    IF Raised(result) THEN result ELSE ParseChunkHashes(result.val)
ParsedDataset(result, module_id) ==
    IF Raised(result) THEN result ELSE _parse_dataset_chunk(result.val, module_id)

RaceFrame == UNCHANGED <<calls, pc, inv, outcome, decoded>>

\* lines 213-215
RaceDiscover ==
    \E t \in Threads :
       /\ probe.fn = "race" /\ probe.threads[t].pc = "discover"
       /\ probe' = [probe EXCEPT !.threads[t].pc =
                       IF RacePageUrl \in DOMAIN DATASET_CACHE
                       THEN "done" ELSE "context"]
       /\ UNCHANGED <<CONTEXT_CACHE, CHUNK_HASH_CACHE, DATASET_CACHE, fetchLog>>
       /\ RaceFrame

\* lines 252-253
RaceContextCached ==
    \E t \in Threads :
       /\ probe.fn = "race" /\ probe.threads[t].pc = "context"
       /\ RacePageUrl \in DOMAIN CONTEXT_CACHE
       /\ probe' = [probe EXCEPT !.threads[t] =
                       AfterContext(@, CONTEXT_CACHE[RacePageUrl])]
       /\ UNCHANGED <<CONTEXT_CACHE, CHUNK_HASH_CACHE, DATASET_CACHE, fetchLog>>
       /\ RaceFrame

\* line 254: the request for the page bundle leaves
RaceContextRequest ==
    \E t \in Threads :
       /\ probe.fn = "race" /\ probe.threads[t].pc = "context"
       /\ RacePageUrl \notin DOMAIN CONTEXT_CACHE
       /\ probe' = [probe EXCEPT !.threads[t].pc = "context wait"]
       /\ fetchLog' = Append(fetchLog, RacePageUrl)
       /\ UNCHANGED <<CONTEXT_CACHE, CHUNK_HASH_CACHE, DATASET_CACHE>>
       /\ RaceFrame

\* lines 254-278 and 218-222 once the download has ended
RaceContextResponse ==
    \E t \in Threads, arrives \in BOOLEAN :
       /\ probe.fn = "race" /\ probe.threads[t].pc = "context wait"
       /\ CONTEXT_CACHE' =
             RaceWrite(CONTEXT_CACHE, RacePageUrl,
                       ParsedContext(Delivered(probe.world.page, arrives)))
       /\ probe' = [probe EXCEPT !.threads[t] =
                       ThenContext(@, ParsedContext(Delivered(probe.world.page, arrives)))]
       /\ UNCHANGED <<CHUNK_HASH_CACHE, DATASET_CACHE, fetchLog>>
       /\ RaceFrame

\* lines 282-283
RaceHashesCached ==
    \E t \in Threads :
       /\ probe.fn = "race" /\ probe.threads[t].pc = "hashes"
       /\ RaceWebpackUrl \in DOMAIN CHUNK_HASH_CACHE
       /\ probe' = [probe EXCEPT !.threads[t] =
                       AfterHashes(@, CHUNK_HASH_CACHE[RaceWebpackUrl])]
       /\ UNCHANGED <<CONTEXT_CACHE, CHUNK_HASH_CACHE, DATASET_CACHE, fetchLog>>
       /\ RaceFrame

\* line 284: the request for the runtime bundle leaves
RaceHashesRequest ==
    \E t \in Threads :
       /\ probe.fn = "race" /\ probe.threads[t].pc = "hashes"
       /\ RaceWebpackUrl \notin DOMAIN CHUNK_HASH_CACHE
       /\ probe' = [probe EXCEPT !.threads[t].pc = "hashes wait"]
       /\ fetchLog' = Append(fetchLog, RaceWebpackUrl)
       /\ UNCHANGED <<CONTEXT_CACHE, CHUNK_HASH_CACHE, DATASET_CACHE>>
       /\ RaceFrame

\* lines 284-319 and 224-227 once the download has ended
RaceHashesResponse ==
    \E t \in Threads, arrives \in BOOLEAN :
       /\ probe.fn = "race" /\ probe.threads[t].pc = "hashes wait"
       /\ CHUNK_HASH_CACHE' =
             RaceWrite(CHUNK_HASH_CACHE, RaceWebpackUrl,
                       ParsedHashes(Delivered(probe.world.runtime, arrives)))
       /\ probe' = [probe EXCEPT !.threads[t] =
                       ThenHashes(@, ParsedHashes(Delivered(probe.world.runtime, arrives)))]
       /\ UNCHANGED <<CONTEXT_CACHE, DATASET_CACHE, fetchLog>>
       /\ RaceFrame

\* lines 229-230: the request for the dataset chunk leaves
RaceChunkRequest ==
    \E t \in Threads :
       /\ probe.fn = "race" /\ probe.threads[t].pc = "chunk"
       /\ probe' = [probe EXCEPT !.threads[t].pc = "chunk wait"]
       /\ fetchLog' = Append(fetchLog,
                             ChunkUrl(DEFAULT_BASE_URL, probe.threads[t].chunk_id,
                                      probe.threads[t].chunk_hash))
       /\ UNCHANGED <<CONTEXT_CACHE, CHUNK_HASH_CACHE, DATASET_CACHE>>
       /\ RaceFrame

\* lines 230-232 once the download has ended
RaceChunkResponse ==
    \E t \in Threads, arrives \in BOOLEAN :
       /\ probe.fn = "race" /\ probe.threads[t].pc = "chunk wait"
       /\ DATASET_CACHE' =
             RaceWrite(DATASET_CACHE, RacePageUrl,
                       ParsedDataset(Delivered(probe.world.chunk, arrives),
                                     probe.threads[t].module_id))
       /\ probe' = [probe EXCEPT !.threads[t] =
                       ThenDataset(@, ParsedDataset(Delivered(probe.world.chunk,
                                                              arrives),
                                                    probe.threads[t].module_id))]
       /\ UNCHANGED <<CONTEXT_CACHE, CHUNK_HASH_CACHE, fetchLog>>
       /\ RaceFrame

NextRace ==
    \/ RaceDiscover
    \/ RaceContextCached
    \/ RaceContextRequest
    \/ RaceContextResponse
    \/ RaceHashesCached
    \/ RaceHashesRequest
    \/ RaceHashesResponse
    \/ RaceChunkRequest
    \/ RaceChunkResponse

SpecRace == InitRace /\ [][NextRace]_vars

RaceDone == probe.fn = "race" /\ \A t \in Threads : probe.threads[t].pc = "done"

----------------------------------------------------------------------------
(* C17 *)

\* the caches after one invocation that runs alone from caches c, where
\* arrives[i] tells whether its i-th possible download delivers
SeqContext(c, arrives) ==
    IF RacePageUrl \in DOMAIN c[1] THEN Ok(c[1][RacePageUrl])
    ELSE ParsedContext(Delivered(probe.world.page, arrives[1]))
SeqHashes(c, arrives) ==
    IF RaceWebpackUrl \in DOMAIN c[2] THEN Ok(c[2][RaceWebpackUrl])
    ELSE ParsedHashes(Delivered(probe.world.runtime, arrives[2]))
SeqDataset(c, arrives, th) ==
    ParsedDataset(Delivered(probe.world.chunk, arrives[3]), th.module_id)
SeqChunk(c, arrives, th) ==
    IF th.pc = "done" THEN c
    ELSE <<c[1], c[2], RaceWrite(c[3], RacePageUrl, SeqDataset(c, arrives, th))>>
SeqAfterHashes(c, arrives, th) ==
    IF th.pc = "done" THEN c
    ELSE SeqChunk(<<c[1], RaceWrite(c[2], RaceWebpackUrl, SeqHashes(c, arrives)),
                    c[3]>>,
                  arrives, ThenHashes(th, SeqHashes(c, arrives)))
SeqLoad(c, arrives) ==
    IF RacePageUrl \in DOMAIN c[3] THEN c
    ELSE SeqAfterHashes(<<RaceWrite(c[1], RacePageUrl, SeqContext(c, arrives)),
                          c[2], c[3]>>,
                        arrives, ThenContext(NewThread, SeqContext(c, arrives)))

Arrivals == [1..3 -> BOOLEAN]
SeqFinals ==
    { SeqLoad(SeqLoad(<<EmptyCache, EmptyCache, EmptyCache>>, a), b) :
         a \in Arrivals, b \in Arrivals }

\* every entry of a cache is the complete parse of the text its URL serves
ContextComplete ==
    \A k \in DOMAIN CONTEXT_CACHE :
       /\ k = RacePageUrl
       /\ ~Raised(ParseDatasetContext(probe.world.page))
       /\ CONTEXT_CACHE[k] = ParseDatasetContext(probe.world.page).val
HashesComplete ==
    \A k \in DOMAIN CHUNK_HASH_CACHE :
       /\ k = RaceWebpackUrl
       /\ ~Raised(ParseChunkHashes(probe.world.runtime))
       /\ CHUNK_HASH_CACHE[k] = ParseChunkHashes(probe.world.runtime).val
DatasetOf(context) ==
    _parse_dataset_chunk(probe.world.chunk, Get(context, "./dc-live.json").v[1])
DatasetComplete ==
    \A k \in DOMAIN DATASET_CACHE :
       /\ k = RacePageUrl
       /\ RacePageUrl \in DOMAIN CONTEXT_CACHE
       /\ ~Raised(DatasetOf(CONTEXT_CACHE[RacePageUrl]))
       /\ DATASET_CACHE[k] = DatasetOf(CONTEXT_CACHE[RacePageUrl]).val

----------------------------------------------------------------------------
(* C18 *)

\* the invocation has ended and its dataset was loaded without an exception
LoadedAndEnded ==
    pc = "idle" /\ calls > 0 /\ inv.primary_error = "none" /\ outcome.via # "load"

\* neither fallback strategy ran in an invocation whose dataset was loaded
FallbackSkipped == LoadedAndEnded => (~inv.ranA /\ ~inv.ranB)

\* C18 as stated: when the dataset was loaded, the invocation returns the
\* normalized records of the filtered page window, the empty list included,
\* and runs neither Strategy A nor Strategy B.
OriginalC18 ==
    LoadedAndEnded =>
       /\ ~inv.ranA /\ ~inv.ranB
       /\ outcome.via = "primary"
       /\ outcome = Return("primary",
                           NormalizeDataset(inv.dataset, inv.city,
                                            inv.page_number, inv.base_url).val)

----------------------------------------------------------------------------
(* C19 *)

\* the primary path of the current invocation failed
PrimaryPathFailed == calls > 0 /\ inv.primary_error # "none"

\* the dataset cache holds what it held when the failing invocation began,
\* and each list in it is one that _parse_dataset_chunk returned
DatasetCacheKept ==
    /\ PrimaryPathFailed => DOMAIN DATASET_CACHE = inv.known
    /\ DATASET_CACHE = decoded

\* a step that makes the primary path fail writes no dataset
FailingStepKeeps ==
    (inv.primary_error = "none" /\ inv'.primary_error # "none")
    => DATASET_CACHE' = DATASET_CACHE

\* a bundle whose entry is cached is not downloaded again
ReusesContext ==
    (pc = "context" /\ inv.page_chunk_url \in DOMAIN CONTEXT_CACHE)
    => (fetchLog' = fetchLog /\ CONTEXT_CACHE' = CONTEXT_CACHE)
ReusesHashes ==
    (pc = "hashes" /\ inv.webpack_url \in DOMAIN CHUNK_HASH_CACHE)
    => (fetchLog' = fetchLog /\ CHUNK_HASH_CACHE' = CHUNK_HASH_CACHE)

\* C19: an invocation whose primary path fails at any step leaves the
\* dataset cache as it found it, so every list in the dataset cache was
\* downloaded and decoded completely; the context and chunk-hash entries
\* written before the failing step stay, and an invocation that finds them
\* does not download their bundles again.
TheoremC19 ==
    /\ []DatasetCacheKept
    /\ [][FailingStepKeeps /\ ReusesContext /\ ReusesHashes]_vars

\* a first invocation failed at the dataset chunk after it had cached context
\* and chunk hashes; the second downloaded the dataset chunk only and
\* returned entities
WitnessC19 ==
    /\ calls = 2
    /\ inv.known = {}
    /\ pc = "idle"
    /\ fetchLog = <<InvChunkUrl>>
    /\ outcome.kind = "returned"
    /\ outcome.via = "primary"
    /\ outcome.restaurants # <<>>

====
